---- MODULE Spec2Model ----
(***************************************************************************)
(* Price store (utils/database.py) and report data builder (main.py) of    *)
(* the HidroBio price monitor.                                             *)
(*                                                                         *)
(* Conventions                                                             *)
(*   - A Python Optional is a sequence of length 0 or 1: None is << >>,    *)
(*     a present value x is << x >>.                                       *)
(*   - A calendar day is an integer (ISO date strings compare like the     *)
(*     days they denote).                                                  *)
(*   - The table is a bag of rows.  The columns id and created_at are      *)
(*     left out: no query of the program reads them.  A bag keeps two      *)
(*     rows that agree on every other column apart.                        *)
(*   - A percentage is kept as the exact fraction [num, den] of the real   *)
(*     number the Python float approximates.                               *)
(***************************************************************************)
EXTENDS Integers, Sequences, FiniteSets, Bags, TLC

VARIABLES
    prices,           \* table prices of the SQLite file: a bag of rows
    today,            \* the calendar day datetime.now().date() reads
    alert_threshold,  \* PriceMonitor.alert_threshold
    ret,              \* the most recent call: its name, the arguments of a
                      \* query, the day it read from the clock, and the
                      \* value it returned
    run,              \* the frame of PriceMonitor.run: where it stands, the
                      \* loop positions, all_prices and report_data
    log               \* what the run has done so far: the adapter calls and
                      \* source errors of the collection, the steps that
                      \* returned, the requests to the analytics service,
                      \* the report handed to delivery

vars == <<prices, today, alert_threshold, ret, run, log>>

None == << >>

Some(x) == << x >>

\* No run has started.
Idle ==
    [pc |-> "idle", s |-> 1, q |-> 1, i |-> 1, all_prices |-> << >>,
     report_data |-> None]

NoLog ==
    [events |-> << >>, steps |-> << >>, credentials |-> None,
     analytics |-> << >>, delivered |-> None, warned |-> FALSE]

---------------------------------------------------------------------------
(* Bounds of the model *)

MaxRows == 3

MaxDay == 2

---------------------------------------------------------------------------
(* Table prices: schema and INSERT OR REPLACE *)

Row(date, supermarket, product, product_name_raw, price_guaranies, unit) ==
    [date |-> date, supermarket |-> supermarket, product |-> product,
     product_name_raw |-> product_name_raw,
     price_guaranies |-> price_guaranies, unit |-> unit]

Rows(tbl) == BagToSet(tbl)

\* UNIQUE(date, supermarket, product, product_name_raw): two rows collide
\* when all four columns are equal; SQLite holds NULLs distinct from every
\* value, another NULL included, so a row with a NULL column never collides.
UniqueConflict(r, new) ==
    /\ r.date = new.date
    /\ r.supermarket = new.supermarket
    /\ r.product = new.product
    /\ r.product_name_raw # None
    /\ new.product_name_raw # None
    /\ r.product_name_raw = new.product_name_raw

\* INSERT OR REPLACE: the rows that collide with the new row are deleted,
\* then the new row is inserted.
InsertOrReplace(tbl, new) ==
    LET kept == {r \in Rows(tbl) : ~UniqueConflict(r, new)}
    IN  [r \in kept |-> tbl[r]] (+) SetToBag({new})

\* save_price: date defaults to the current day; the insert never raises
\* IntegrityError (REPLACE resolves the collision), so the except branch
\* is dead for integer prices.
SavePriceRow(supermarket, product, price_guaranies, product_name_raw, unit, date) ==
    Row(IF date = None THEN today ELSE date[1],
        supermarket, product, product_name_raw, price_guaranies, unit)

SavePrice(supermarket, product, price_guaranies, product_name_raw, unit, date) ==
    LET new == SavePriceRow(supermarket, product, price_guaranies,
                            product_name_raw, unit, date)
    IN  /\ BagCardinality(InsertOrReplace(prices, new)) <= MaxRows
        /\ prices' = InsertOrReplace(prices, new)
        /\ ret' = [op |-> "save_price", args |-> None, at |-> today, value |-> None]
        /\ UNCHANGED <<today, alert_threshold, run, log>>

\* The calendar day advances.
Tick ==
    /\ today < MaxDay
    /\ today' = today + 1
    /\ UNCHANGED <<prices, alert_threshold, ret, run, log>>

---------------------------------------------------------------------------
(* Queries of the store *)

\* The rows of a SELECT, as the dicts the queries build.
Entry(r) ==
    [supermarket |-> r.supermarket, product |-> r.product,
     price |-> r.price_guaranies, product_name_raw |-> r.product_name_raw,
     unit |-> r.unit]

\* Every order in which the rows of a bag can be listed.
BagSeqs(b) ==
    LET n == BagCardinality(b)
    IN  IF n = 0 THEN {<< >>}
        ELSE {s \in [1 .. n -> Rows(b)] :
                \A r \in Rows(b) : Cardinality({i \in 1 .. n : s[i] = r}) = b[r]}

\* The rows of a table that satisfy a WHERE clause, as a bag.
Where(tbl, sel) == [r \in {x \in Rows(tbl) : sel[x]} |-> tbl[r]]

\* ORDER BY price_guaranies ASC.  SQL leaves the order of rows of equal price
\* open, so a query has one possible result per such order.
OrderedByPrice(hit) ==
    {[i \in 1 .. Len(s) |-> Entry(s[i])] :
        s \in {t \in BagSeqs(hit) :
                 \A i \in 1 .. Len(t) - 1 :
                    t[i].price_guaranies <= t[i + 1].price_guaranies}}

\* get_prices_for_date with a product: WHERE date = ? AND product = ?.
GetPricesForDate(tbl, date, product) ==
    OrderedByPrice(Where(tbl, [r \in Rows(tbl) |->
                                 r.date = date /\ r.product = product]))

\* A get_today_prices that leaves the date out of the WHERE clause.
GetTodayPricesAnyDate(tbl, day, product) ==
    OrderedByPrice(Where(tbl, [r \in Rows(tbl) |-> r.product = product]))

\* get_today_prices: the rows of the current day.
GetTodayPrices(tbl, day, product) == GetPricesForDate(tbl, day, product)

\* A get_previous_price with date <= today in place of date < today.
GetPreviousPriceUpToToday(tbl, day, supermarket, product) ==
    LET sel == {r \in Rows(tbl) : /\ r.supermarket = supermarket
                                  /\ r.product = product
                                  /\ r.date <= day}
        top == {r \in sel : \A q \in sel : q.date <= r.date}
    IN  IF sel = {} THEN {None} ELSE {Some(r.price_guaranies) : r \in top}

\* get_previous_price: WHERE supermarket = ? AND product = ? AND date < today
\* ORDER BY date DESC LIMIT 1.  Several rows may share the latest date; which
\* of them LIMIT 1 keeps is open, so every one of them is a possible result.
GetPreviousPrice(tbl, day, supermarket, product) ==
    LET sel == {r \in Rows(tbl) : /\ r.supermarket = supermarket
                                  /\ r.product = product
                                  /\ r.date < day}
        top == {r \in sel : \A q \in sel : q.date <= r.date}
    IN  IF sel = {} THEN {None} ELSE {Some(r.price_guaranies) : r \in top}

RECURSIVE SumOver(_, _)
\* Sum of price_guaranies over the rows of a set, with their multiplicity.
SumOver(tbl, rs) ==
    IF rs = {} THEN 0
    ELSE LET r == CHOOSE x \in rs : TRUE
         IN  tbl[r] * r.price_guaranies + SumOver(tbl, rs \ {r})

RECURSIVE CountOver(_, _)
\* Number of rows of a set, with their multiplicity.
CountOver(tbl, rs) ==
    IF rs = {} THEN 0
    ELSE LET r == CHOOSE x \in rs : TRUE
         IN  tbl[r] + CountOver(tbl, rs \ {r})

\* int(x) of a fraction: truncation toward zero.
Trunc(num, den) ==
    LET q == (IF num < 0 THEN -num ELSE num) \div (IF den < 0 THEN -den ELSE den)
    IN  IF (num < 0) # (den < 0) THEN -q ELSE q

\* round(x, 1) of a fraction with a positive denominator, in tenths: the
\* nearest tenth, a tie going to the even one.
RoundTenths(num, den) ==
    LET a == IF num < 0 THEN -num ELSE num
        q == (10 * a) \div den
        r == (10 * a) % den
        m == IF 2 * r > den \/ (2 * r = den /\ q % 2 = 1) THEN q + 1 ELSE q
    IN  IF num < 0 THEN -m ELSE m

\* The dates of the window without its start: date <= day alone.
TrendDatesNoStart(tbl, day, product, days) ==
    {r.date : r \in {x \in Rows(tbl) : x.product = product /\ x.date <= day}}

\* The dates of the product's rows with date BETWEEN day - days AND day.
TrendDates(tbl, day, product, days) ==
    {r.date : r \in {x \in Rows(tbl) : /\ x.product = product
                                        /\ x.date >= day - days
                                        /\ x.date <= day}}

\* AVG(price_guaranies) of the product's rows of one date, as sum / count.
DateAverage(tbl, product, date) ==
    LET rs == {r \in Rows(tbl) : r.product = product /\ r.date = date}
    IN  [sum |-> SumOver(tbl, rs), count |-> CountOver(tbl, rs)]

\* get_price_trend with the 2 percent marks themselves counted as a change.
GetPriceTrendFromTwoPercent(tbl, day, product, days) ==
    LET dates == TrendDates(tbl, day, product, days)
    IN  IF Cardinality(dates) < 2
        THEN [trend |-> "insufficient_data", change_percent |-> 0]
        ELSE LET first == DateAverage(tbl, product,
                              CHOOSE d \in dates : \A e \in dates : d <= e)
                 last == DateAverage(tbl, product,
                              CHOOSE d \in dates : \A e \in dates : e <= d)
                 num == (last.sum * first.count - first.sum * last.count) * 100
                 den == first.sum * last.count
             IN  [trend |-> IF num >= 2 * den THEN "up"
                            ELSE IF num <= -2 * den THEN "down"
                            ELSE "stable",
                  change_percent |-> RoundTenths(num, den),
                  first_price |-> Trunc(first.sum, first.count),
                  last_price |-> Trunc(last.sum, last.count)]

\* get_price_trend: change from the earliest to the latest date average of
\* the window (prices are positive, so first_price is not zero);
\* change_percent is in tenths of a percent.
GetPriceTrend(tbl, day, product, days) ==
    LET dates == TrendDates(tbl, day, product, days)
    IN  IF Cardinality(dates) < 2
        THEN [trend |-> "insufficient_data", change_percent |-> 0]
        ELSE LET first == DateAverage(tbl, product,
                              CHOOSE d \in dates : \A e \in dates : d <= e)
                 last == DateAverage(tbl, product,
                              CHOOSE d \in dates : \A e \in dates : e <= d)
                 num == (last.sum * first.count - first.sum * last.count) * 100
                 den == first.sum * last.count
             IN  [trend |-> IF num > 2 * den THEN "up"
                            ELSE IF num < -2 * den THEN "down"
                            ELSE "stable",
                  change_percent |-> RoundTenths(num, den),
                  first_price |-> Trunc(first.sum, first.count),
                  last_price |-> Trunc(last.sum, last.count)]

\* A call of get_previous_price.
GetPreviousPriceCall(supermarket, product) ==
    /\ \E v \in GetPreviousPrice(prices, today, supermarket, product) :
          ret' = [op |-> "get_previous_price", args |-> <<supermarket, product>>,
                  at |-> today, value |-> v]
    /\ UNCHANGED <<prices, today, alert_threshold, run, log>>

\* A call of get_price_trend.
GetPriceTrendCall(product, days) ==
    /\ ret' = [op |-> "get_price_trend", args |-> <<product, days>>,
               at |-> today,
               value |-> GetPriceTrend(prices, today, product, days)]
    /\ UNCHANGED <<prices, today, alert_threshold, run, log>>

---------------------------------------------------------------------------
(* Report data builder *)

\* config["products"]: the names of the configured products, in order.
ProductsConfig == <<"Tomate Lisa", "Locote Rojo">>

\* Default window of get_price_trend.
DefaultTrendDays == 7

RECURSIVE SeenSupermarketsKeepsHighest(_, _)
\* A dedup loop with the comparison turned round: the higher price stays.
SeenSupermarketsKeepsHighest(ps, seen) ==
    IF ps = << >> THEN seen
    ELSE LET p == Head(ps)
             at == {i \in 1 .. Len(seen) : seen[i].supermarket = p.supermarket}
         IN  SeenSupermarketsKeepsHighest(Tail(ps),
                IF at = {} THEN Append(seen, p)
                ELSE LET i == CHOOSE j \in at : TRUE
                     IN  IF p.price > seen[i].price
                         THEN [seen EXCEPT ![i] = p] ELSE seen)

\* No dedup: every listed entry is kept.
SeenSupermarketsKeepsAll(ps, seen) == seen \o ps

RECURSIVE SeenSupermarkets(_, _)
\* The dedup loop: seen holds one entry per supermarket, in the order the
\* supermarkets were first seen; a later entry replaces the kept one only
\* when its price is strictly lower.
SeenSupermarkets(ps, seen) ==
    IF ps = << >> THEN seen
    ELSE LET p == Head(ps)
             at == {i \in 1 .. Len(seen) : seen[i].supermarket = p.supermarket}
         IN  SeenSupermarkets(Tail(ps),
                IF at = {} THEN Append(seen, p)
                ELSE LET i == CHOOSE j \in at : TRUE
                     IN  IF p.price < seen[i].price
                         THEN [seen EXCEPT ![i] = p] ELSE seen)

RECURSIVE SortedValues(_)
\* sorted(data) of a list of integers.
SortedValues(s) ==
    IF s = << >> THEN << >>
    ELSE LET rest == SortedValues(Tail(s))
             k == Cardinality({i \in 1 .. Len(rest) : rest[i] < Head(s)})
         IN  SubSeq(rest, 1, k) \o <<Head(s)>> \o SubSeq(rest, k + 1, Len(rest))

\* int(statistics.median(values)) of a non-empty list: the middle value of
\* the sorted list, or the mean of the two middle values, truncated.
Median(values) ==
    LET d == SortedValues(values)
        n == Len(d)
    IN  IF n % 2 = 1 THEN d[n \div 2 + 1]
        ELSE Trunc(d[n \div 2] + d[n \div 2 + 1], 2)

RECURSIVE SortedByPrice(_)
\* sorted(prices, key=price): a stable sort.
SortedByPrice(ps) ==
    IF ps = << >> THEN << >>
    ELSE LET rest == SortedByPrice(Tail(ps))
             k == Cardinality({i \in 1 .. Len(rest) : rest[i].price < Head(ps).price})
         IN  SubSeq(rest, 1, k) \o <<Head(ps)>> \o SubSeq(rest, k + 1, Len(rest))

\* ((price - previous) / previous) * 100, as an exact fraction.
Change(price, previous) == [num |-> (price - previous) * 100, den |-> previous]

Abs(x) == IF x < 0 THEN -x ELSE x

\* abs(change) > threshold: the boundary left out.
ExceedsThresholdStrictly(change, threshold) ==
    Abs(change.num) > threshold * Abs(change.den)

\* abs(change) >= threshold
ExceedsThreshold(change, threshold) ==
    Abs(change.num) >= threshold * Abs(change.den)

\* One pass of the alert loop body: the alerts (none or one) appended for
\* one deduplicated entry, given the value get_previous_price returned.
\* "if previous" is false for None and for 0.
AlertFor(product_name, price, previous, threshold) ==
    IF previous # None /\ previous[1] # 0
       /\ ExceedsThreshold(Change(price.price, previous[1]), threshold)
    THEN << [product |-> product_name,
             supermarket |-> price.supermarket,
             change_percent |-> Change(price.price, previous[1]),
             previous_price |-> previous[1],
             current_price |-> price.price] >>
    ELSE << >>

RECURSIVE AlertsFor(_, _, _, _, _)
\* The alert loop over the deduplicated entries: every list of alerts it
\* can append, one per choice of the results of get_previous_price.
AlertsFor(tbl, day, threshold, product_name, ps) ==
    IF ps = << >> THEN {<< >>}
    ELSE {a \o rest :
            a \in {AlertFor(product_name, Head(ps), previous, threshold) :
                     previous \in GetPreviousPrice(tbl, day, Head(ps).supermarket,
                                                   product_name)},
            rest \in AlertsFor(tbl, day, threshold, product_name, Tail(ps))}

\* The body of the loop over the configured products, for one product and
\* one result of get_today_prices: the reports the loop can leave.
ReportProduct(tbl, day, threshold, product_name, listed, acc) ==
    IF listed = << >> THEN {acc}
    ELSE LET dedup == SeenSupermarkets(listed, << >>)
             median == Median([i \in 1 .. Len(dedup) |-> dedup[i].price])
             trend == GetPriceTrend(tbl, day, product_name, DefaultTrendDays)
         IN  {[date |-> acc.date,
               products |-> Append(acc.products,
                              [name |-> product_name, median |-> median,
                               prices |-> SortedByPrice(dedup)]),
               alerts |-> acc.alerts \o alerts,
               trends |-> (product_name :> trend) @@ acc.trends] :
                alerts \in AlertsFor(tbl, day, threshold, product_name, dedup)}

RECURSIVE ReportsFrom(_, _, _, _, _)
\* The loop over the configured products from index i on.
ReportsFrom(tbl, day, threshold, i, acc) ==
    IF i > Len(ProductsConfig) THEN {acc}
    ELSE UNION {ReportsFrom(tbl, day, threshold, i + 1, next) :
                  next \in UNION {ReportProduct(tbl, day, threshold,
                                               ProductsConfig[i], listed, acc) :
                                    listed \in GetTodayPrices(tbl, day,
                                                              ProductsConfig[i])}}

\* _generate_report_data: every report the builder can return.  The clock
\* is read once: the day does not change while one report is built.
ReportData(tbl, day, threshold) ==
    ReportsFrom(tbl, day, threshold, 1,
                [date |-> day, products |-> << >>, alerts |-> << >>,
                 trends |-> << >>])

GenerateReportData ==
    /\ \E report \in ReportData(prices, today, alert_threshold) :
          ret' = [op |-> "_generate_report_data", args |-> None, at |-> today,
                  value |-> report]
    /\ UNCHANGED <<prices, today, alert_threshold, run, log>>

---------------------------------------------------------------------------
(* Text: a Python str is the sequence of its characters *)

MaxNameLen == 3

MaxTextLen == 5

\* The strings of at most n characters over an alphabet.
Words(alphabet, n) == UNION {[1..k -> alphabet] : k \in 0..n}

\* The letters of the model that have an upper and a lower case, as
\* <<upper, lower>>.
CasePairs ==
    {<<"A", "a">>, <<"E", "e">>, <<"G", "g">>, <<"L", "l">>, <<"M", "m">>,
     <<"O", "o">>, <<"R", "r">>, <<"T", "t">>, <<"K", "k">>, <<"P", "p">>,
     <<"U", "u">>, <<"É", "é">>}

\* str.lower() of one character.
LowerChar(c) ==
    IF \E cp \in CasePairs : cp[1] = c
    THEN (CHOOSE cp \in CasePairs : cp[1] = c)[2]
    ELSE c

\* str.lower()
Lower(s) == [i \in 1..Len(s) |-> LowerChar(s[i])]

\* needle in hay, of two strs
StrIn(needle, hay) ==
    \E k \in 0..(Len(hay) - Len(needle)) :
        SubSeq(hay, k + 1, k + Len(needle)) = needle

\* dict.get(key, default) of a key kept as an Optional
Get(field, default) == IF field = None THEN default ELSE field[1]

\* _matches_product without lower(): the characters compared as they are.
MatchesProductCaseSensitive(raw_name, product) ==
    LET search_terms == Get(product.search_terms, << >>)
    IN  \E i \in 1..Len(search_terms) : StrIn(search_terms[i], raw_name)

\* _matches_product: some search term, lowered, is in the lowered raw name;
\* a product without the key search_terms has none.
MatchesProduct(raw_name, product) ==
    LET raw_lower == Lower(raw_name)
        search_terms == Get(product.search_terms, << >>)
    IN  \E i \in 1..Len(search_terms) : StrIn(Lower(search_terms[i]), raw_lower)

\* A call of _matches_product.
MatchesProductCall(raw_name, product) ==
    /\ ret' = [op |-> "_matches_product", args |-> <<raw_name, product>>,
               at |-> today, value |-> MatchesProduct(raw_name, product)]
    /\ UNCHANGED <<prices, today, alert_threshold, run, log>>

---------------------------------------------------------------------------
(* Price text normalizer (scrapers/base_scraper.py) *)

GuaraniSign == "₲"

RECURSIVE Replace(_, _, _)
\* str.replace(old, new), old not empty: the occurrences of old, taken from
\* the left and not overlapping.
Replace(s, old, new) ==
    IF Len(s) < Len(old) THEN s
    ELSE IF SubSeq(s, 1, Len(old)) = old
         THEN new \o Replace(SubSeq(s, Len(old) + 1, Len(s)), old, new)
         ELSE <<s[1]>> \o Replace(Tail(s), old, new)

\* str.strip(): the string without its leading and trailing blanks.
Strip(s) ==
    LET solid == {i \in 1..Len(s) : s[i] # " "}
    IN  IF solid = {} THEN << >>
        ELSE SubSeq(s, CHOOSE i \in solid : \A j \in solid : i <= j,
                       CHOOSE i \in solid : \A j \in solid : j <= i)

DigitChars == <<"0", "1", "2", "3", "4", "5", "6", "7", "8", "9">>

IsDigit(c) == \E d \in 1..Len(DigitChars) : DigitChars[d] = c

\* The characters of the class [\d.,]
IsNumberChar(c) == IsDigit(c) \/ c = "." \/ c = ","

\* re.search(r"[\d.,]+", s): the leftmost match at its greatest length, or
\* None.
SearchNumber(s) ==
    LET hits == {i \in 1..Len(s) : IsNumberChar(s[i])}
    IN  IF hits = {} THEN None
        ELSE LET b == CHOOSE i \in hits : \A j \in hits : i <= j
                 e == CHOOSE j \in b..Len(s) :
                         /\ \A i \in b..j : IsNumberChar(s[i])
                         /\ j = Len(s) \/ ~IsNumberChar(s[j + 1])
             IN  Some(SubSeq(s, b, e))

RECURSIVE DigitsValue(_)
\* The number a string of digits writes; 0 for the empty string.
DigitsValue(s) ==
    IF s = << >> THEN 0
    ELSE 10 * DigitsValue(SubSeq(s, 1, Len(s) - 1))
         + ((CHOOSE d \in 1..Len(DigitChars) : DigitChars[d] = s[Len(s)]) - 1)

\* int(float(s)) of a string of digits and '.': float takes digits with at
\* most one '.' and at least one digit, int drops the fraction; None
\* stands for the ValueError of float.
IntOfFloat(s) ==
    LET dots == {i \in 1..Len(s) : s[i] = "."}
    IN  IF Cardinality(dots) > 1 \/ Len(s) = Cardinality(dots) THEN None
        ELSE IF dots = {} THEN Some(DigitsValue(s))
        ELSE Some(DigitsValue(SubSeq(s, 1, (CHOOSE i \in dots : TRUE) - 1)))

\* len(s.split(".")[-1]): the number of characters after the last '.'
LastPartLen(s) ==
    LET dots == {i \in 1..Len(s) : s[i] = "."}
    IN  IF dots = {} THEN Len(s)
        ELSE Len(s) - (CHOOSE i \in dots : \A j \in dots : j <= i)

\* The text without the currency markers and the per-unit suffixes, in the
\* order the code removes them, stripped.
Cleaned(text) ==
    LET a == Replace(text, <<"G", "s">>, << >>)
        b == Replace(a, <<GuaraniSign>>, << >>)
        c == Replace(b, <<"G", "$">>, << >>)
        d == Replace(c, <<"/", "k", "g">>, << >>)
        e == Replace(d, <<"/", "u", "n">>, << >>)
        f == Replace(e, <<"/", "u">>, << >>)
    IN  Strip(f)

\* _extract_price that takes every '.' for a thousands separator.
ExtractPriceDotsAlwaysThousands(text) ==
    IF text = << >> THEN None
    ELSE LET match == SearchNumber(Cleaned(text))
         IN  IF match = None THEN None
             ELSE LET price_str == match[1]
                      has_dot == \E i \in 1..Len(price_str) : price_str[i] = "."
                      has_comma == \E i \in 1..Len(price_str) : price_str[i] = ","
                  IN  IntOfFloat(
                        IF has_dot /\ has_comma
                        THEN Replace(Replace(price_str, <<".">>, << >>),
                                     <<",">>, <<".">>)
                        ELSE IF has_dot
                        THEN Replace(price_str, <<".">>, << >>)
                        ELSE IF has_comma
                        THEN Replace(price_str, <<",">>, << >>)
                        ELSE price_str)

\* _extract_price: None, or Some(price).
ExtractPrice(text) ==
    IF text = << >> THEN None
    ELSE LET match == SearchNumber(Cleaned(text))
         IN  IF match = None THEN None
             ELSE LET price_str == match[1]
                      has_dot == \E i \in 1..Len(price_str) : price_str[i] = "."
                      has_comma == \E i \in 1..Len(price_str) : price_str[i] = ","
                  IN  IntOfFloat(
                        IF has_dot /\ has_comma
                        THEN Replace(Replace(price_str, <<".">>, << >>),
                                     <<",">>, <<".">>)
                        ELSE IF has_dot
                        THEN IF LastPartLen(price_str) = 3
                             THEN Replace(price_str, <<".">>, << >>)
                             ELSE price_str
                        ELSE IF has_comma
                        THEN Replace(price_str, <<",">>, << >>)
                        ELSE price_str)

\* A call of _extract_price.
ExtractPriceCall(text) ==
    /\ ret' = [op |-> "_extract_price", args |-> <<text>>, at |-> today,
               value |-> ExtractPrice(text)]
    /\ UNCHANGED <<prices, today, alert_threshold, run, log>>

---------------------------------------------------------------------------
(* Produce classifier (scrapers/base_scraper.py) *)

\* exclude_terms
ExcludeTerms ==
    <<
       <<"e", "x", "t", "r", "a", "c", "t", "o">>,
       <<"p", "u", "r", "e">>,
       <<"p", "u", "r", "é">>,
       <<"s", "a", "l", "s", "a">>,
       <<"p", "e", "l", "a", "d", "o">>,
       <<"e", "n", "l", "a", "t", "a", "d", "o">>,
       <<"c", "o", "n", "s", "e", "r", "v", "a">>,
       <<"l", "a", "t", "a">>,
       <<"b", "o", "t", "e", "l", "l", "a">>,
       <<"t", "e", "t", "r", "a">>,
       <<"s", "a", "c", "h", "e", "t">>,
       <<"s", "o", "b", "r", "e">>,
       <<"s", "a", "r", "d", "i", "n", "a">>,
       <<"a", "t", "u", "n">>,
       <<"a", "t", "ú", "n">>,
       <<"k", "e", "t", "c", "h", "u", "p">>,
       <<"p", "a", "s", "t", "a">>,
       <<"p", "u", "l", "p", "a">> >>

\* include_terms
IncludeTerms ==
    <<
       <<"p", "o", "r", " ", "k", "g">>,
       <<"p", "o", "r", " ", "k", "i", "l", "o">>,
       <<"x", " ", "k", "g">>,
       <<"/", "k", "g">>,
       <<"k", "g", " ", "x">>,
       <<"1", " ", "k", "g">>,
       <<"f", "r", "e", "s", "c", "o">>,
       <<"b", "a", "n", "d", "e", "j", "a">>,
       <<"g", "r", "a", "n", "e", "l">>,
       <<"x", " ", "1">> >>

\* _is_fresh_produce with the inclusion rules tried before the exclusion
\* rule.
IsFreshProduceInclusionFirst(name) ==
    LET name_lower == Lower(name)
    IN  IF \E i \in 1..Len(IncludeTerms) : StrIn(IncludeTerms[i], name_lower)
        THEN TRUE
        ELSE IF StrIn(<<"k", "g">>, name_lower)
        THEN TRUE
        ELSE IF \E i \in 1..Len(ExcludeTerms) : StrIn(ExcludeTerms[i], name_lower)
        THEN FALSE
        ELSE TRUE

\* _is_fresh_produce: the three rules in the order of the code.
IsFreshProduce(name) ==
    LET name_lower == Lower(name)
    IN  IF \E i \in 1..Len(ExcludeTerms) : StrIn(ExcludeTerms[i], name_lower)
        THEN FALSE
        ELSE IF \E i \in 1..Len(IncludeTerms) : StrIn(IncludeTerms[i], name_lower)
        THEN TRUE
        ELSE IF StrIn(<<"k", "g">>, name_lower)
        THEN TRUE
        ELSE TRUE

\* A call of _is_fresh_produce.
IsFreshProduceCall(name) ==
    /\ ret' = [op |-> "_is_fresh_produce", args |-> <<name>>, at |-> today,
               value |-> IsFreshProduce(name)]
    /\ UNCHANGED <<prices, today, alert_threshold, run, log>>

---------------------------------------------------------------------------
(* Source adapter (scrapers/base_scraper.py) *)

\* config["supermarkets"]: Stock with enabled: true, Superseis with
\* enabled: false, Biggie without the key (no class of SCRAPERS has that
\* name, so it gets a GenericScraper).
SupermarketsConfig ==
    << [name |-> "Stock", enabled |-> Some(TRUE)],
       [name |-> "Superseis", enabled |-> Some(FALSE)],
       [name |-> "Biggie", enabled |-> None] >>

\* BaseScraper.__init__: the fields search and the collection read.
Scraper(config) ==
    [name |-> config.name, enabled |-> Get(config.enabled, TRUE)]

\* str.startswith(prefix)
StartsWith(s, prefix) ==
    Len(s) >= Len(prefix) /\ SubSeq(s, 1, Len(prefix)) = prefix

\* s.split(sep)[0]: the part of s before the first occurrence of sep.
SplitHead(s, sep) ==
    LET at == {k \in 0..(Len(s) - Len(sep)) :
                  SubSeq(s, k + 1, k + Len(sep)) = sep}
    IN  IF at = {} THEN s
        ELSE SubSeq(s, 1, CHOOSE k \in at : \A j \in at : k <= j)

\* `if not price` is false for a price that is neither None nor 0.
TruthyNotNone(price) == price # None

\* "if not price" is true for None and for 0 alike.
Truthy(price) == price # None /\ price # Some(0)

\* The first of the prices that is neither None nor 0, or None: the loops
\* that try one text after another until a price is found.
FirstTruthy(found) ==
    LET hits == {i \in 1..Len(found) : Truthy(found[i])}
    IN  IF hits = {} THEN None
        ELSE found[CHOOSE i \in hits : \A j \in hits : i <= j]

\* _extract_casarica_price: the first run of digits of the text without
\* its currency markers, dots and commas.
ExtractCasaricaPrice(price_text) ==
    IF price_text = << >> THEN None
    ELSE LET a == Replace(price_text, <<GuaraniSign>>, << >>)
             b == Replace(a, <<".">>, << >>)
             c == Replace(b, <<",">>, << >>)
             cleaned == Strip(Replace(c, <<"G", "s">>, << >>))
             hits == {i \in 1..Len(cleaned) : IsDigit(cleaned[i])}
         IN  IF hits = {} THEN None
             ELSE LET from == CHOOSE i \in hits : \A j \in hits : i <= j
                      to == CHOOSE j \in from..Len(cleaned) :
                               /\ \A i \in from..j : IsDigit(cleaned[i])
                               /\ j = Len(cleaned) \/ ~IsDigit(cleaned[j + 1])
                  IN  Some(DigitsValue(SubSeq(cleaned, from, to)))

\* Names and price texts of the containers on the pages of the model.
NameTomateLisa == <<"T", "o", "m", "a", "t", "e", " ", "L", "i", "s", "a">>

NameLechuga == <<"L", "e", "c", "h", "u", "g", "a">>

NameLocoteRojo == <<"L", "o", "c", "o", "t", "e", " ", "R", "o", "j", "o">>

NameTomateEnLata == <<"T", "o", "m", "a", "t", "e", " ", "e", "n", " ", "l", "a", "t", "a">>

NameAji == <<"A", "j">>

NameAnadi == <<"A", "ñ", "a", "d", "í", " ", "y", "a">>

Text17950 == <<GuaraniSign, " ", "1", "7", ".", "9", "5", "0">>

Text5000 == <<"G", "s", " ", "5", ".", "0", "0", "0">>

TextZero == <<"G", "s", " ", "0">>

TextConsultar == <<"c", "o", "n", "s", "u", "l", "t", "a", "r">>

\* A product container as the locators of the extractors see it: whether
\* handling it raises, the texts of its name elements (for the generic
\* extractor in the order of name_patterns, for Superseis in document
\* order), its title attribute, its data-product-price attribute, the texts
\* of its price elements in the order they are tried, and its strings that
\* hold a currency marker.
Container(names, title, price_data, price_elems, price_strings) ==
    [raises |-> FALSE, names |-> names, title |-> title,
     price_data |-> price_data, price_elems |-> price_elems,
     price_strings |-> price_strings]

\* A container with one name element and one price element.
Plain(name, price_text) ==
    Container(<<name>>, None, None, <<price_text>>, << >>)

\* A container on which a locator raises.
Broken == [Plain(NameTomateLisa, Text17950) EXCEPT !.raises = TRUE]

\* A results page: its product containers, and the lines of its text.
PageEmpty == [containers |-> << >>, lines |-> << >>]

PageTomateLechuga ==
    [containers |-> << Plain(NameTomateLisa, Text17950),
                       Plain(NameLechuga, Text5000),
                       Plain(NameLocoteRojo, TextConsultar),
                       Plain(NameLocoteRojo, Text5000),
                       Plain(NameTomateLisa, TextZero) >>,
     lines |-> << >>]

\* The documents a response can carry: a page, or a document on which
\* BeautifulSoup or _parse_products raises.
Bodies ==
    {[parses |-> TRUE, page |-> page] :
        page \in {PageEmpty, PageTomateLechuga}}
    \cup {[parses |-> FALSE]}

\* What session.get does: it raises Timeout or ConnectionError (both
\* RequestException), or returns a response.  A 3xx status is one that
\* requests does not follow (no Location header, or 304).
Responses ==
    {[kind |-> "Timeout"], [kind |-> "ConnectionError"]}
    \cup {[kind |-> "Response", status |-> st, body |-> b] :
            st \in {200, 304, 404}, b \in Bodies}

\* response.raise_for_status() raises HTTPError for a 4xx or 5xx status,
\* and for no other.
RaiseForStatus(status) == status >= 400 /\ status < 600

\* The dict an extractor appends for a container (the url is left out).
Listing(self_name, name, price) ==
    [name |-> name, price |-> price[1], unit |-> "kg",
     supermarket |-> self_name]

\* The prices _extract_price finds in a list of texts.
PricesOf(texts) == [i \in 1..Len(texts) |-> ExtractPrice(texts[i])]

\* StockScraper._parse_products, the body of its loop: the listing of one
\* element, or nothing.
StockContainer(self_name, element) ==
    IF element.names = << >> /\ element.title = None THEN << >>
    ELSE LET name == IF Get(element.title, << >>) # << >>
                     THEN element.title[1]
                     ELSE IF element.names # << >> THEN element.names[1]
                     ELSE << >>
             price == IF element.price_elems # << >>
                      THEN ExtractPrice(element.price_elems[1])
                      ELSE FirstTruthy(PricesOf(element.price_strings))
         IN  IF ~IsFreshProduce(name) THEN << >>
             ELSE IF ~Truthy(price) THEN << >>
             ELSE <<Listing(self_name, name, price)>>

TextAnadi == <<"A", "ñ", "a", "d", "í">>

TextPreparate == <<"P", "r", "e", "p", "a", "r", "a", "t", "e">>

TextTeAhorras == <<"T", "e", " ", "a", "h", "o", "r", "r", "a", "s">>

TextAhorras == <<"a", "h", "o", "r", "r", "a", "s">>

\* SuperseisScraper._parse_products with the classifier left out.
SuperseisContainerUnclassified(self_name, element) ==
    LET fit == {i \in 1..Len(element.names) :
                   /\ Len(element.names[i]) > 5
                   /\ ~StartsWith(element.names[i], <<GuaraniSign>>)
                   /\ ~StartsWith(element.names[i], <<"G", "s">>)
                   /\ Len(element.names[i]) < 80}
    IN  IF fit = {} THEN << >>
        ELSE LET found == element.names[CHOOSE i \in fit : \A j \in fit : i <= j]
                 cut == IF StrIn(TextAnadi, found)
                        THEN Strip(SplitHead(found, TextAnadi))
                        ELSE found
                 name == IF StrIn(TextPreparate, cut)
                         THEN Strip(SplitHead(cut, TextPreparate))
                         ELSE cut
                 first == IF Get(element.price_data, << >>) # << >>
                          THEN ExtractPrice(element.price_data[1])
                          ELSE None
                 price == IF ~Truthy(first) /\ element.price_elems # << >>
                          THEN ExtractPrice(element.price_elems[1])
                          ELSE first
             IN  IF StrIn(TextTeAhorras, name) \/ StrIn(TextAhorras, Lower(name))
                 THEN << >>
                 ELSE IF ~Truthy(price) THEN << >>
                 ELSE <<Listing(self_name, name, price)>>

\* SuperseisScraper._parse_products, the body of its loop.
SuperseisContainer(self_name, element) ==
    LET fit == {i \in 1..Len(element.names) :
                   /\ Len(element.names[i]) > 5
                   /\ ~StartsWith(element.names[i], <<GuaraniSign>>)
                   /\ ~StartsWith(element.names[i], <<"G", "s">>)
                   /\ Len(element.names[i]) < 80}
    IN  IF fit = {} THEN << >>
        ELSE LET found == element.names[CHOOSE i \in fit : \A j \in fit : i <= j]
                 cut == IF StrIn(TextAnadi, found)
                        THEN Strip(SplitHead(found, TextAnadi))
                        ELSE found
                 name == IF StrIn(TextPreparate, cut)
                         THEN Strip(SplitHead(cut, TextPreparate))
                         ELSE cut
                 first == IF Get(element.price_data, << >>) # << >>
                          THEN ExtractPrice(element.price_data[1])
                          ELSE None
                 price == IF ~Truthy(first) /\ element.price_elems # << >>
                          THEN ExtractPrice(element.price_elems[1])
                          ELSE first
             IN  IF StrIn(TextTeAhorras, name) \/ StrIn(TextAhorras, Lower(name))
                 THEN << >>
                 ELSE IF ~IsFreshProduce(name) THEN << >>
                 ELSE IF ~Truthy(price) THEN << >>
                 ELSE <<Listing(self_name, name, price)>>

\* CasaRicaScraper._parse_products, the body of its loop.
CasaRicaContainer(self_name, element) ==
    IF element.names = << >> THEN << >>
    ELSE LET name == element.names[1]
             first == IF element.price_elems # << >>
                      THEN ExtractCasaricaPrice(element.price_elems[1])
                      ELSE None
             marked == SelectSeq(element.price_strings,
                                 LAMBDA text : StrIn(<<GuaraniSign>>, text))
             price == IF Truthy(first) THEN first
                      ELSE FirstTruthy([i \in 1..Len(marked) |->
                                           ExtractCasaricaPrice(marked[i])])
         IN  IF ~IsFreshProduce(name) THEN << >>
             ELSE IF ~Truthy(price) THEN << >>
             ELSE <<Listing(self_name, name, price)>>

\* GenericScraper._extract_product_data and the test of its caller.  The
\* loop over name_patterns stops at a text of more than 3 characters and
\* otherwise keeps the last text it found.
GenericContainer(self_name, element) ==
    LET long == {i \in 1..Len(element.names) : Len(element.names[i]) > 3}
        located == IF long # {}
                   THEN element.names[CHOOSE i \in long : \A j \in long : i <= j]
                   ELSE IF element.names # << >>
                   THEN element.names[Len(element.names)]
                   ELSE << >>
        name == IF located # << >> THEN located
                ELSE Get(element.title, << >>)
        first == FirstTruthy(PricesOf(element.price_elems))
        price == IF Truthy(first) THEN first
                 ELSE IF element.price_strings # << >>
                 THEN ExtractPrice(element.price_strings[1])
                 ELSE None
    IN  IF name = << >> THEN << >>
        ELSE IF ~Truthy(price) THEN << >>
        ELSE IF ~IsFreshProduce(name) THEN << >>
        ELSE <<Listing(self_name, name, price)>>

\* SCRAPERS: the extractor class of a source; GenericScraper for a name
\* that is not a key.
ExtractorOf(name) ==
    IF name \in {"Stock", "Superseis", "Casa Rica"} THEN name ELSE "generic"

\* The body of the loop of the extractor of a kind.
ContainerListing(kind, self_name, element) ==
    CASE kind = "Stock" -> StockContainer(self_name, element)
      [] kind = "Superseis" -> SuperseisContainer(self_name, element)
      [] kind = "Casa Rica" -> CasaRicaContainer(self_name, element)
      [] OTHER -> GenericContainer(self_name, element)

RECURSIVE ParseContainersStopAtError(_, _, _)
\* The loop over the elements with `except Exception: break`.
ParseContainersStopAtError(kind, self_name, elements) ==
    IF elements = << >> THEN << >>
    ELSE IF Head(elements).raises THEN << >>
    ELSE ContainerListing(kind, self_name, Head(elements))
         \o ParseContainersStopAtError(kind, self_name, Tail(elements))

RECURSIVE ParseContainers(_, _, _)
\* for element in product_elements: try: ... except Exception: continue
ParseContainers(kind, self_name, elements) ==
    IF elements = << >> THEN << >>
    ELSE (IF Head(elements).raises THEN << >>
          ELSE ContainerListing(kind, self_name, Head(elements)))
         \o ParseContainers(kind, self_name, Tail(elements))

\* re.search(r'Gs\s*([\d.,]+)', line): the leftmost 'Gs' that blanks and
\* then a number follow, as [start, text], or None.
SearchGsNumber(line) ==
    LET NumberAt(k) ==
            LET after == {j \in (k + 2)..Len(line) : line[j] # " "}
            IN  IF after = {} THEN 0
                ELSE LET j == CHOOSE i \in after : \A h \in after : i <= h
                     IN  IF IsNumberChar(line[j]) THEN j ELSE 0
        starts == {k \in 1..(Len(line) - 1) :
                      /\ line[k] = "G" /\ line[k + 1] = "s"
                      /\ NumberAt(k) # 0}
    IN  IF starts = {} THEN None
        ELSE LET k == CHOOSE i \in starts : \A h \in starts : i <= h
                 e == CHOOSE j \in NumberAt(k)..Len(line) :
                         /\ \A i \in NumberAt(k)..j : IsNumberChar(line[i])
                         /\ j = Len(line) \/ ~IsNumberChar(line[j + 1])
             IN  Some([start |-> k, text |-> SubSeq(line, k, e)])

\* The produce names _parse_from_text looks for in a line.
ProduceTerms ==
    {<<"t", "o", "m", "a", "t", "e">>,
     <<"l", "o", "c", "o", "t", "e">>,
     <<"p", "i", "m", "i", "e", "n", "t", "o">>,
     <<"l", "e", "c", "h", "u", "g", "a">>,
     <<"m", "o", "r", "r", "o", "n">>,
     <<"m", "o", "r", "r", "ó", "n">>}

\* StockScraper._parse_from_text, the body of its loop over the lines.
LineListing(self_name, raw) ==
    LET line == Strip(raw)
        price_match == SearchGsNumber(line)
    IN  IF line = << >> \/ price_match = None THEN << >>
        ELSE IF ~\E term \in ProduceTerms : StrIn(term, Lower(line)) THEN << >>
        ELSE LET price == ExtractPrice(price_match[1].text)
                 name_part == Strip(SubSeq(line, 1, price_match[1].start - 1))
             IN  IF Truthy(price) /\ Len(name_part) > 5 /\ IsFreshProduce(name_part)
                 THEN <<Listing(self_name, name_part, price)>>
                 ELSE << >>

RECURSIVE ParseFromText(_, _)
\* StockScraper._parse_from_text
ParseFromText(self_name, lines) ==
    IF lines = << >> THEN << >>
    ELSE LineListing(self_name, Head(lines))
         \o ParseFromText(self_name, Tail(lines))

\* _parse_products of the scraper of a source; StockScraper reads the text
\* of a page on which it finds no container.
ParseProducts(name, page) ==
    IF ExtractorOf(name) = "Stock" /\ page.containers = << >>
    THEN ParseFromText(name, page.lines)
    ELSE ParseContainers(ExtractorOf(name), name, page.containers)

\* A call of _parse_products on the scraper of a source.
ParseProductsCall(name, page) ==
    /\ ret' = [op |-> "_parse_products", args |-> <<name, page>>,
               at |-> today, value |-> ParseProducts(name, page)]
    /\ UNCHANGED <<prices, today, alert_threshold, run, log>>

\* search without its last handler `except Exception`: an error of the
\* parser reaches the caller.
SearchParseErrorsEscape(scraper, query, response) ==
    IF ~scraper.enabled
    THEN [value |-> << >>, fetched |-> FALSE, raised |-> FALSE]
    ELSE IF response.kind # "Response"
    THEN [value |-> << >>, fetched |-> TRUE, raised |-> FALSE]
    ELSE IF RaiseForStatus(response.status)
    THEN [value |-> << >>, fetched |-> TRUE, raised |-> FALSE]
    ELSE IF ~response.body.parses
    THEN [value |-> << >>, fetched |-> TRUE, raised |-> TRUE]
    ELSE [value |-> ParseProducts(scraper.name, response.body.page),
          fetched |-> TRUE, raised |-> FALSE]

\* search without the test of self.enabled.
SearchIgnoresEnabled(scraper, query, response) ==
    IF response.kind # "Response"
    THEN [value |-> << >>, fetched |-> TRUE, raised |-> FALSE]
    ELSE IF RaiseForStatus(response.status)
    THEN [value |-> << >>, fetched |-> TRUE, raised |-> FALSE]
    ELSE IF ~response.body.parses
    THEN [value |-> << >>, fetched |-> TRUE, raised |-> FALSE]
    ELSE [value |-> ParseProducts(scraper.name, response.body.page),
          fetched |-> TRUE, raised |-> FALSE]

\* search: the list it returns, whether it went to the network, and
\* whether an exception left it.  A disabled scraper returns at once; the
\* two handlers turn every exception of the fetch and of the parser into
\* an empty list.
Search(scraper, query, response) ==
    IF ~scraper.enabled
    THEN [value |-> << >>, fetched |-> FALSE, raised |-> FALSE]
    ELSE IF response.kind # "Response"
    THEN [value |-> << >>, fetched |-> TRUE, raised |-> FALSE]
    ELSE IF RaiseForStatus(response.status)
    THEN [value |-> << >>, fetched |-> TRUE, raised |-> FALSE]
    ELSE IF ~response.body.parses
    THEN [value |-> << >>, fetched |-> TRUE, raised |-> FALSE]
    ELSE [value |-> ParseProducts(scraper.name, response.body.page),
          fetched |-> TRUE, raised |-> FALSE]

\* A call of search on the scraper of a configured source, outside a run.
SearchCall(config, query, response) ==
    /\ ret' = [op |-> "search", args |-> <<config, query, response>>,
               at |-> today,
               value |-> Search(Scraper(config), query, response)]
    /\ UNCHANGED <<prices, today, alert_threshold, run, log>>

\* CATEGORY_URLS: the categories search_category knows.
CategoryUrls == {"verduras", "frutas"}

\* range(1, 6): the last page search_category asks for.
MaxPages == 5

\* One pass of the loop of search_category failed: the fetch raised, the
\* status is an error, or the parser raised.
PageFails(response) ==
    \/ response.kind # "Response"
    \/ RaiseForStatus(response.status)
    \/ ~response.body.parses

RECURSIVE CategoryPagesNoStop(_, _, _)
\* The loop of search_category with `continue` where it has `break`.
CategoryPagesNoStop(self_name, responses, page) ==
    IF page > MaxPages THEN [value |-> << >>, fetched |-> << >>]
    ELSE LET products == IF PageFails(responses[page]) THEN << >>
                         ELSE ParseProducts(self_name, responses[page].body.page)
             rest == CategoryPagesNoStop(self_name, responses, page + 1)
         IN  [value |-> products \o rest.value,
              fetched |-> <<page>> \o rest.fetched]

RECURSIVE CategoryPages(_, _, _)
\* The loop of search_category from a page on: the listings collected and
\* the pages fetched.  responses[n] is what the server answers for page n.
CategoryPages(self_name, responses, page) ==
    IF page > MaxPages THEN [value |-> << >>, fetched |-> << >>]
    ELSE LET products == IF PageFails(responses[page]) THEN << >>
                         ELSE ParseProducts(self_name, responses[page].body.page)
         IN  IF products = << >>
             THEN [value |-> << >>, fetched |-> <<page>>]
             ELSE LET rest == CategoryPages(self_name, responses, page + 1)
                  IN  [value |-> products \o rest.value,
                       fetched |-> <<page>> \o rest.fetched]

\* CasaRicaScraper.search_category: nothing is fetched for a category that
\* is not a key of CATEGORY_URLS.
SearchCategory(self_name, category, responses) ==
    IF category \notin CategoryUrls
    THEN [value |-> << >>, fetched |-> << >>]
    ELSE CategoryPages(self_name, responses, 1)

\* A call of search_category on the Casa Rica scraper.
SearchCategoryCall(category, responses) ==
    /\ ret' = [op |-> "search_category", args |-> <<category, responses>>,
               at |-> today,
               value |-> SearchCategory("Casa Rica", category, responses)]
    /\ UNCHANGED <<prices, today, alert_threshold, run, log>>

---------------------------------------------------------------------------
(* Collection pipeline and run (main.py) *)

TermTomateLisa == <<"t", "o", "m", "a", "t", "e", " ", "l", "i", "s", "a">>

TermTomate == <<"t", "o", "m", "a", "t", "e">>

\* config["products"]: the products of ProductsConfig in full.  Tomate
\* Lisa has two search terms and a unit; Locote Rojo has neither key.
ConfiguredProducts ==
    << [name |-> "Tomate Lisa",
        search_terms |-> Some(<<TermTomateLisa, TermTomate>>),
        unit |-> Some("unidad")],
       [name |-> "Locote Rojo", search_terms |-> None, unit |-> None] >>

\* The characters of a product name.
NameChars(name) ==
    CASE name = "Tomate Lisa" -> NameTomateLisa
      [] name = "Locote Rojo" -> NameLocoteRojo

RECURSIVE QueriesFrom(_)
\* The two inner loops of the collection, unrolled: for product in
\* products, for term in search_terms.
QueriesFrom(p) ==
    IF p > Len(ConfiguredProducts) THEN << >>
    ELSE LET product == ConfiguredProducts[p]
             search_terms == Get(product.search_terms,
                                 <<Lower(NameChars(product.name))>>)
         IN  [t \in 1..Len(search_terms) |->
                [product |-> p, term |-> search_terms[t]]]
             \o QueriesFrom(p + 1)

\* The collection that asks every source for the first query alone.
QueriesFirstOnly == SubSeq(QueriesFrom(1), 1, 1)

Queries == QueriesFrom(1)

\* The dict appended to all_prices for a matching result.
Fact(name, product, result) ==
    [supermarket |-> name, product |-> product.name,
     product_name_raw |-> result.name, price |-> result.price,
     unit |-> Get(product.unit, "kg")]

RECURSIVE FactsOfEveryListing(_, _, _)
\* The loop over the results without the matcher.
FactsOfEveryListing(name, product, results) ==
    IF results = << >> THEN << >>
    ELSE <<Fact(name, product, Head(results))>>
         \o FactsOfEveryListing(name, product, Tail(results))

RECURSIVE FactsOf(_, _, _)
\* The loop over the results of one search: a fact for every result the
\* matcher accepts for the product, in the order of the results.
FactsOf(name, product, results) ==
    IF results = << >> THEN << >>
    ELSE (IF MatchesProduct(Head(results).name, product)
          THEN <<Fact(name, product, Head(results))>>
          ELSE << >>)
         \o FactsOf(name, product, Tail(results))

\* A handler that ends the loop over the sources (break).
AfterSourceErrorBreaks(frame) ==
    [frame EXCEPT !.s = Len(SupermarketsConfig) + 1, !.q = 1]

\* except Exception: ... continue -- the loop goes to the next source;
\* all_prices keeps what it has.
AfterSourceError(frame) == [frame EXCEPT !.s = @ + 1, !.q = 1]

SearchEvent(name, product, term, found) ==
    [kind |-> "search", source |-> name, product |-> product.name,
     term |-> term, fetched |-> found.fetched, results |-> found.value]

ErrorEvent(name) == [kind |-> "error", source |-> name]

\* run() is called.
StartRun ==
    /\ run.pc = "idle"
    /\ ret.op = "init"
    /\ run' = [Idle EXCEPT !.pc = "scrape"]
    /\ log' = NoLog
    /\ UNCHANGED <<prices, today, alert_threshold, ret>>

\* if not supermarket_config.get("enabled", True): continue
SkipDisabled ==
    /\ run.pc = "scrape"
    /\ run.s <= Len(SupermarketsConfig)
    /\ ~Get(SupermarketsConfig[run.s].enabled, TRUE)
    /\ run' = [run EXCEPT !.s = @ + 1, !.q = 1]
    /\ UNCHANGED <<prices, today, alert_threshold, ret, log>>

\* One pass of the loop over the search terms: scraper.search(term) and the
\* loop over its results.  Handling a result raises on no value that the
\* extractors and a configuration of strings produce.  An exception out of
\* search would go to the handler of the source.
ScrapeTerm ==
    /\ run.pc = "scrape"
    /\ run.s <= Len(SupermarketsConfig)
    /\ Get(SupermarketsConfig[run.s].enabled, TRUE)
    /\ run.q <= Len(Queries)
    /\ \E response \in Responses :
        \E found \in {Search(Scraper(SupermarketsConfig[run.s]),
                             Queries[run.q].term, response)} :
          LET name == SupermarketsConfig[run.s].name
              product == ConfiguredProducts[Queries[run.q].product]
              term == Queries[run.q].term
              called == Append(log.events, SearchEvent(name, product, term, found))
          IN  /\ run' = IF found.raised THEN AfterSourceError(run)
                        ELSE [run EXCEPT
                                !.all_prices = @ \o FactsOf(name, product,
                                                            found.value),
                                !.q = @ + 1]
              /\ log' = [log EXCEPT !.events = IF found.raised
                                               THEN Append(called, ErrorEvent(name))
                                               ELSE called]
    /\ UNCHANGED <<prices, today, alert_threshold, ret>>

\* The source raises before its next search: in the constructor of the
\* scraper, or while the product and its search terms are read.
SourceRaises ==
    /\ run.pc = "scrape"
    /\ run.s <= Len(SupermarketsConfig)
    /\ Get(SupermarketsConfig[run.s].enabled, TRUE)
    /\ run.q <= Len(Queries)
    /\ run' = AfterSourceError(run)
    /\ log' = [log EXCEPT !.events =
                  Append(@, ErrorEvent(SupermarketsConfig[run.s].name))]
    /\ UNCHANGED <<prices, today, alert_threshold, ret>>

\* The loops over the products and terms of a source are through.
NextSource ==
    /\ run.pc = "scrape"
    /\ run.s <= Len(SupermarketsConfig)
    /\ Get(SupermarketsConfig[run.s].enabled, TRUE)
    /\ run.q > Len(Queries)
    /\ run' = [run EXCEPT !.s = @ + 1, !.q = 1]
    /\ UNCHANGED <<prices, today, alert_threshold, ret, log>>

\* _scrape_all_prices returns all_prices.
FinishScrape ==
    /\ run.pc = "scrape"
    /\ run.s > Len(SupermarketsConfig)
    /\ run' = [run EXCEPT !.pc = "save", !.i = 1]
    /\ log' = [log EXCEPT !.steps = Append(@, "collect")]
    /\ UNCHANGED <<prices, today, alert_threshold, ret>>

\* One pass of the loop of _save_prices: save_price of one fact, with the
\* date of the moment.
SaveNext ==
    /\ run.pc = "save"
    /\ run.i <= Len(run.all_prices)
    /\ LET price_data == run.all_prices[run.i]
       IN  prices' = InsertOrReplace(prices,
                        SavePriceRow(price_data.supermarket, price_data.product,
                                     price_data.price,
                                     Some(price_data.product_name_raw),
                                     price_data.unit, None))
    /\ run' = [run EXCEPT !.i = @ + 1]
    /\ UNCHANGED <<today, alert_threshold, ret, log>>

\* _save_prices returns.
FinishSave ==
    /\ run.pc = "save"
    /\ run.i > Len(run.all_prices)
    /\ run' = [run EXCEPT !.pc = "sync"]
    /\ log' = [log EXCEPT !.steps = Append(@, "save")]
    /\ UNCHANGED <<prices, today, alert_threshold, ret>>

\* What _sync_to_analytics meets: whether the credentials file holds
\* ZOHO_REFRESH_TOKEN, whether the token request succeeds, whether the
\* import request succeeds.
AnalyticsEnvs ==
    {[credentials |-> FALSE, token_ok |-> FALSE, import_ok |-> FALSE],
     [credentials |-> TRUE, token_ok |-> FALSE, import_ok |-> FALSE],
     [credentials |-> TRUE, token_ok |-> TRUE, import_ok |-> FALSE],
     [credentials |-> TRUE, token_ok |-> TRUE, import_ok |-> TRUE]}

\* get_prices_from_sqlite(): the rows of the current day.
TodayRows(tbl, day) == Where(tbl, [r \in Rows(tbl) |-> r.date = day])

\* _sync_to_analytics without its try: the error of a request leaves it.
SyncToAnalyticsUncaught(env, rows) ==
    IF ~env.credentials
    THEN [requests |-> << >>, raised |-> FALSE]
    ELSE IF ~env.token_ok
    THEN [requests |-> <<[to |-> "token"]>>, raised |-> TRUE]
    ELSE IF rows = EmptyBag
    THEN [requests |-> <<[to |-> "token"]>>, raised |-> FALSE]
    ELSE [requests |-> <<[to |-> "token"], [to |-> "import", data |-> rows]>>,
          raised |-> ~env.import_ok]

\* _sync_to_analytics: the requests it sends to the analytics service and
\* whether an exception leaves it.  Without the refresh token it returns
\* before any request; the try around the body catches every error of the
\* token request and of the import.
SyncToAnalytics(env, rows) ==
    IF ~env.credentials
    THEN [requests |-> << >>, raised |-> FALSE]
    ELSE IF ~env.token_ok
    THEN [requests |-> <<[to |-> "token"]>>, raised |-> FALSE]
    ELSE IF rows = EmptyBag
    THEN [requests |-> <<[to |-> "token"]>>, raised |-> FALSE]
    ELSE [requests |-> <<[to |-> "token"], [to |-> "import", data |-> rows]>>,
          raised |-> FALSE]

\* Step 3 of run.  An exception that leaves a step of run leaves run.
SyncStep ==
    /\ run.pc = "sync"
    /\ \E env \in AnalyticsEnvs :
          LET done == SyncToAnalytics(env, TodayRows(prices, today))
          IN  /\ run' = [run EXCEPT !.pc = IF done.raised THEN "aborted"
                                           ELSE "report"]
              /\ log' = [log EXCEPT
                           !.credentials = Some(env.credentials),
                           !.analytics = done.requests,
                           !.steps = IF done.raised THEN @ ELSE Append(@, "sync")]
    /\ UNCHANGED <<prices, today, alert_threshold, ret>>

\* A run that builds its report from the store only when it collected
\* facts, and an empty report otherwise.
BuildReportOfCollected ==
    /\ run.pc = "report"
    /\ \E report \in (IF run.all_prices = << >>
                       THEN ReportData(EmptyBag, today, alert_threshold)
                       ELSE ReportData(prices, today, alert_threshold)) :
          run' = [run EXCEPT !.pc = "deliver", !.report_data = Some(report)]
    /\ log' = [log EXCEPT !.steps = Append(@, "report")]
    /\ UNCHANGED <<prices, today, alert_threshold, ret>>

\* Step 4 of run: report_data = self._generate_report_data()
BuildReport ==
    /\ run.pc = "report"
    /\ \E report \in ReportData(prices, today, alert_threshold) :
          run' = [run EXCEPT !.pc = "deliver", !.report_data = Some(report)]
    /\ log' = [log EXCEPT !.steps = Append(@, "report")]
    /\ UNCHANGED <<prices, today, alert_threshold, ret>>

\* A run that sends whatever report it built.
ReportHasProductsOrNot(report_data) == TRUE

\* if report_data["products"]: a list is true when it is not empty.
ReportHasProducts(report_data) == report_data.products # << >>

\* Step 5 of run: send_report(report_data), or the warning "No prices
\* found, skipping email".  send_report catches its own errors.
DeliverOrSkip ==
    /\ run.pc = "deliver"
    /\ run' = [run EXCEPT !.pc = "done"]
    /\ log' = IF ReportHasProducts(run.report_data[1])
              THEN [log EXCEPT !.delivered = run.report_data,
                               !.steps = Append(@, "decide")]
              ELSE [log EXCEPT !.warned = TRUE,
                               !.steps = Append(@, "decide")]
    /\ UNCHANGED <<prices, today, alert_threshold, ret>>

---------------------------------------------------------------------------
(* Specification Spec: the store under arbitrary save_price calls *)

Days == 0 .. MaxDay

StoreSupermarkets == {"Stock", "Superseis"}

StoreProducts == {"Tomate Lisa"}

StoreRawNames == {None, Some("Tomate Lisa"), Some("Tomate Lisa Extra")}

StorePrices == {16500, 17950}

StoreUnits == {"kg", "unit"}

StoreDates == {None, Some(0)}

DefaultThreshold == 15

NoCall == [op |-> "init", args |-> None, at |-> 0, value |-> None]

Init ==
    /\ prices = EmptyBag
    /\ run = Idle
    /\ log = NoLog
    /\ today = 0
    /\ alert_threshold = DefaultThreshold
    /\ ret = NoCall

SaveAny ==
    \E s \in StoreSupermarkets, p \in StoreProducts, x \in StorePrices,
       n \in StoreRawNames, u \in StoreUnits, d \in StoreDates :
        SavePrice(s, p, x, n, u, d)

Next == SaveAny \/ Tick

Spec == Init /\ [][Next]_vars

---------------------------------------------------------------------------
(* Specification SpecReport: daily saves of observed prices, and reports *)

Thresholds == {15, 20}

\* What a day's collection can save: <<supermarket, product, raw name,
\* price>>.
ObservedFacts ==
    ({"Stock"} \X {"Tomate Lisa"} \X {Some("Tomate Lisa")} \X {16500, 18975, 20250})
    \cup ({"Stock"} \X {"Tomate Lisa"} \X {Some("Tomate Lisa Extra")} \X {16800, 17950})
    \cup ({"Superseis"} \X {"Tomate Lisa"} \X {Some("Tomate Lisa")} \X {16200, 20250})
    \cup ({"Biggie"} \X {"Tomate Lisa"} \X {None} \X {17950})
    \cup ({"Stock"} \X {"Locote Rojo"} \X {Some("Locote Rojo")} \X {16500})

InitReport ==
    /\ prices = EmptyBag
    /\ run = Idle
    /\ log = NoLog
    /\ today = 0
    /\ alert_threshold \in Thresholds
    /\ ret = NoCall

\* _save_prices saves with the default unit and no date.
SaveObserved ==
    \E f \in ObservedFacts : SavePrice(f[1], f[2], f[4], f[3], "kg", None)

NextReport == SaveObserved \/ Tick \/ GenerateReportData

SpecReport == InitReport /\ [][NextReport]_vars

---------------------------------------------------------------------------
(* Specification SpecQuery: daily saves, and the history queries *)

QueryFacts ==
    ({"Stock"} \X {"Tomate Lisa"} \X {Some("Tomate Lisa")} \X {20000, 21000})
    \cup ({"Stock"} \X {"Tomate Lisa"} \X {Some("Tomate Lisa Extra")} \X {20400})
    \cup ({"Superseis"} \X {"Tomate Lisa"} \X {Some("Tomate Lisa")} \X {21000})
    \cup ({"Stock"} \X {"Locote Rojo"} \X {Some("Locote Rojo")} \X {20000, 19600})

QuerySupermarkets == {"Stock", "Superseis"}

QueryProducts == {"Tomate Lisa", "Locote Rojo"}

\* Windows asked of get_price_trend: one day, and the default.
QueryWindows == {1, DefaultTrendDays}

SaveQueried ==
    \E f \in QueryFacts : SavePrice(f[1], f[2], f[4], f[3], "kg", None)

PreviousPriceAny ==
    \E s \in QuerySupermarkets, p \in QueryProducts : GetPreviousPriceCall(s, p)

PriceTrendAny ==
    \E p \in QueryProducts, w \in QueryWindows : GetPriceTrendCall(p, w)

NextQuery == SaveQueried \/ Tick \/ PreviousPriceAny \/ PriceTrendAny

SpecQuery == Init /\ [][NextQuery]_vars

---------------------------------------------------------------------------
(* Specification SpecMatch: the product matcher on every short name *)

MatchAlphabet == {"T", "t", "a"}

MatchNames == Words(MatchAlphabet, MaxNameLen)

MatchTerms == Words(MatchAlphabet, MaxNameLen - 1)

\* A product without the key search_terms, with an empty list, with one
\* term and with two.
MatchProducts ==
    {[name |-> "Tomate Lisa", search_terms |-> st, unit |-> None] :
        st \in {None, Some(<< >>)}
               \cup {Some(<<t>>) : t \in MatchTerms}
               \cup {Some(<<t, u>>) : t \in MatchTerms, u \in MatchTerms}}

\* A call that has its arguments and has not run yet.
Pending(op, args) == [op |-> op, args |-> args, at |-> 0, value |-> None]

InitMatch ==
    /\ prices = EmptyBag
    /\ run = Idle
    /\ log = NoLog
    /\ today = 0
    /\ alert_threshold = DefaultThreshold
    /\ \E raw_name \in MatchNames, product \in MatchProducts :
          ret = Pending("call _matches_product", <<raw_name, product>>)

MatchesProductPending ==
    /\ ret.op = "call _matches_product"
    /\ MatchesProductCall(ret.args[1], ret.args[2])

NextMatch == MatchesProductPending

SpecMatch == InitMatch /\ [][NextMatch]_vars

---------------------------------------------------------------------------
(* Specification SpecPrice: the normalizer on every short price text *)

PriceAlphabet == {"1", "2", ".", ",", " ", GuaraniSign}

\* Texts with the markers and suffixes of more than one character, with
\* letters, and with prices longer than the short texts.
PriceExamples ==
    {<<GuaraniSign, " ", "1", "7", ".", "9", "5", "0">>,
     <<"G", "s", " ", "1", ".", "2", "3", "4", ",", "5", "6">>,
     <<GuaraniSign, "1", "7", ",", "9", "5", "0">>,
     <<"n", "o", " ", "d", "i", "g", "i", "t", "s", " ", "h", "e", "r", "e">>,
     <<"G", "s", ".", " ", "1", "7", ".", "9", "5", "0", "/", "k", "g">>,
     <<"1", "G", "$", "7", ".", "9", "5", "/", "u", "n">>,
     <<"1", ".", "2", "3", "4", ".", "5", "6", "7">>,
     <<"G", "s", " ", "1", ".", "2", "3", "4", ",", "5", ",", "6">>,
     <<"0", "3", "/", "u", "4", ",", "5", "6", "8", " ", "9">>}

PriceTexts == Words(PriceAlphabet, MaxTextLen) \cup PriceExamples

InitPrice ==
    /\ prices = EmptyBag
    /\ run = Idle
    /\ log = NoLog
    /\ today = 0
    /\ alert_threshold = DefaultThreshold
    /\ \E text \in PriceTexts : ret = Pending("call _extract_price", <<text>>)

ExtractPricePending ==
    /\ ret.op = "call _extract_price"
    /\ ExtractPriceCall(ret.args[1])

NextPrice == ExtractPricePending

SpecPrice == InitPrice /\ [][NextPrice]_vars

---------------------------------------------------------------------------
(* Specification SpecClassify: one call of _is_fresh_produce *)

ClassifyAlphabet == {"l", "a", "t", "A"}

\* The names of the documented examples, a name with an exclusion and an
\* inclusion term, one with an exclusion term and 'kg', and upper case.
ClassifyExamples ==
    {<<"T", "o", "m", "a", "t", "e", " ", "f", "r", "i", "t", "o", " ", "e", "n", " ", "l", "a", "t", "a">>,
     <<"T", "o", "m", "a", "t", "e", " ", "L", "i", "s", "a", " ", "x", " ", "k", "g">>,
     <<"P", "u", "l", "p", "a", " ", "d", "e", " ", "t", "o", "m", "a", "t", "e", " ", "x", " ", "k", "g">>,
     <<"A", "t", "u", "n", " ", "1", "k", "g">>,
     <<"P", "U", "R", "É">>,
     <<"T", "o", "m", "a", "t", "e">>}

ClassifyNames == Words(ClassifyAlphabet, MaxNameLen + 1) \cup ClassifyExamples

InitClassify ==
    /\ prices = EmptyBag
    /\ today = 0
    /\ alert_threshold = DefaultThreshold
    /\ run = Idle
    /\ log = NoLog
    /\ \E name \in ClassifyNames :
          ret = Pending("call _is_fresh_produce", <<name>>)

IsFreshProducePending ==
    /\ ret.op = "call _is_fresh_produce"
    /\ IsFreshProduceCall(ret.args[1])

NextClassify == IsFreshProducePending

SpecClassify == InitClassify /\ [][NextClassify]_vars

---------------------------------------------------------------------------
(* Specification SpecExtract: one call of _parse_products *)

MaxContainers == 2

\* A source for each extractor class; Biggie gets the generic one.
ExtractSources == {"Stock", "Superseis", "Casa Rica", "Biggie"}

\* The containers of the pages: a listing of fresh produce; a processed
\* product; a name of two characters; a container that raises; one without
\* a price; promotional copy with a price attribute; a price of 0; a short
\* heading with a title attribute and a price in the text.
ExtractContainers ==
    {Plain(NameTomateLisa, Text17950),
     Plain(NameTomateEnLata, Text5000),
     Plain(NameAji, Text5000),
     Broken,
     Plain(NameLechuga, TextConsultar),
     Container(<<NameAnadi>>, None, Some(<<"5", "0", "0", "0">>), << >>, << >>),
     Plain(NameLocoteRojo, TextZero),
     Container(<<NameAji>>, Some(NameLechuga), None, << >>, <<Text5000>>)}

\* The lines of the pages without containers.
ExtractLines ==
    {<<"T", "o", "m", "a", "t", "e", " ", "L", "i", "s", "a", " ", "x", " ", "k", "g", " ", "G", "s", " ", "1", "7", ".", "9", "5", "0">>,
     <<"T", "o", "m", "a", "t", "e", " ", "e", "n", " ", "l", "a", "t", "a", " ", "G", "s", " ", "5", ".", "0", "0", "0">>,
     <<"A", "j", " ", "G", "s", " ", "5", ".", "0", "0", "0", " ", "t", "o", "m", "a", "t", "e">>,
     <<"T", "o", "m", "a", "t", "e", " ", "G", "s", " ", "0">>,
     << >>}

ExtractPages ==
    {[containers |-> elements, lines |-> << >>] :
        elements \in Words(ExtractContainers, MaxContainers)}
    \cup {[containers |-> << >>, lines |-> lines] :
            lines \in Words(ExtractLines, MaxContainers)}

InitExtract ==
    /\ prices = EmptyBag
    /\ today = 0
    /\ alert_threshold = DefaultThreshold
    /\ run = Idle
    /\ log = NoLog
    /\ \E name \in ExtractSources, page \in ExtractPages :
          ret = Pending("call _parse_products", <<name, page>>)

ParseProductsPending ==
    /\ ret.op = "call _parse_products"
    /\ ParseProductsCall(ret.args[1], ret.args[2])

NextExtract == ParseProductsPending

SpecExtract == InitExtract /\ [][NextExtract]_vars

---------------------------------------------------------------------------
(* Specification SpecCategory: one call of search_category *)

\* A known and an unknown category.
Categories == {"verduras", "carnes"}

\* What the server answers for one page of the category.
CategoryResponses ==
    {[kind |-> "Timeout"],
     [kind |-> "Response", status |-> 404,
      body |-> [parses |-> TRUE, page |-> PageTomateLechuga]],
     [kind |-> "Response", status |-> 200,
      body |-> [parses |-> TRUE, page |-> PageEmpty]],
     [kind |-> "Response", status |-> 200,
      body |-> [parses |-> TRUE, page |-> PageTomateLechuga]],
     [kind |-> "Response", status |-> 200, body |-> [parses |-> FALSE]]}

\* The category has one page more than search_category asks for.
InitCategory ==
    /\ prices = EmptyBag
    /\ today = 0
    /\ alert_threshold = DefaultThreshold
    /\ run = Idle
    /\ log = NoLog
    /\ \E category \in Categories,
          responses \in [1..(MaxPages + 1) -> CategoryResponses] :
             ret = Pending("call search_category", <<category, responses>>)

SearchCategoryPending ==
    /\ ret.op = "call search_category"
    /\ SearchCategoryCall(ret.args[1], ret.args[2])

NextCategory == SearchCategoryPending

SpecCategory == InitCategory /\ [][NextCategory]_vars

---------------------------------------------------------------------------
(* Specification SpecRun: one run of the monitor, or one call of search *)

SearchQueries == {TermTomateLisa, TermTomate}

\* The store when the process starts: empty, or holding a fact that an
\* earlier run of the same day saved.
EarlierRunStores ==
    {EmptyBag,
     SetToBag({Row(0, "Stock", "Tomate Lisa", Some(NameTomateLisa), 16500,
                   "unidad")})}

\* The process does one run (python main.py), or a caller outside a run
\* asks the scraper of a configured source.
InitRun ==
    /\ prices \in EarlierRunStores
    /\ run = Idle
    /\ log = NoLog
    /\ today = 0
    /\ alert_threshold = DefaultThreshold
    /\ \/ ret = NoCall
       \/ \E n \in 1..Len(SupermarketsConfig), query \in SearchQueries,
             response \in Responses :
               ret = Pending("call search",
                             <<SupermarketsConfig[n], query, response>>)

SearchPending ==
    /\ ret.op = "call search"
    /\ SearchCall(ret.args[1], ret.args[2], ret.args[3])

\* The day changes during a run.  The collection does not read the clock,
\* and nothing reads it once the report is built, so a change of day there
\* is the same as one just after the collection.
RunTick ==
    /\ run.pc \in {"save", "sync", "report"}
    /\ Tick

NextRun ==
    \/ SearchPending
    \/ StartRun
    \/ SkipDisabled
    \/ ScrapeTerm
    \/ SourceRaises
    \/ NextSource
    \/ FinishScrape
    \/ SaveNext
    \/ FinishSave
    \/ SyncStep
    \/ BuildReport
    \/ DeliverOrSkip
    \/ RunTick

SpecRun == InitRun /\ [][NextRun]_vars

\* The steps of a run that has started.
RunStep ==
    \/ SkipDisabled
    \/ SourceRaises
    \/ ScrapeTerm
    \/ NextSource
    \/ FinishScrape
    \/ SaveNext
    \/ FinishSave
    \/ SyncStep
    \/ BuildReport
    \/ DeliverOrSkip

---------------------------------------------------------------------------
(* Claims about the store *)

\* The natural key of a row; an absent raw name is a key value like any
\* other.
KeyOf(r) == <<r.date, r.supermarket, r.product, r.product_name_raw>>

\* C1: after any sequence of save calls the store holds at most one row
\* per (date, source, product, raw_name) key, an absent raw name included.
C1_AtMostOneRowPerKey ==
    \A r \in Rows(prices) :
        /\ CopiesIn(r, prices) = 1
        /\ \A q \in Rows(prices) : KeyOf(q) = KeyOf(r) => q = r

\* C2: a stored fact is never updated in place or removed: every row of
\* the store is still there, unchanged, after any step.
C2_NeverUpdatedOrRemoved ==
    [][\A r \in Rows(prices) : CopiesIn(r, prices') >= CopiesIn(r, prices)]_vars

\* Every fact save_price can be called with.
StoreFacts ==
    {Row(d, s, p, n, x, u) :
        d \in Days, s \in StoreSupermarkets, p \in StoreProducts,
        n \in StoreRawNames, x \in StorePrices, u \in StoreUnits}

\* C3: saving a fact that is stored already leaves the store as it was,
\* with exactly one row for the fact; saving a fact that differs only in
\* raw_name from a stored one leaves a row for each.
C3_SaveTwiceIsSaveOnce ==
    [][\A f \in StoreFacts :
         prices' = InsertOrReplace(prices, f) =>
           /\ f \in Rows(prices) =>
                 prices' = prices /\ CopiesIn(f, prices') = 1
           /\ \A g \in Rows(prices) :
                 ( /\ g.product_name_raw # f.product_name_raw
                   /\ [g EXCEPT !.product_name_raw = None] =
                      [f EXCEPT !.product_name_raw = None] ) =>
                 CopiesIn(g, prices') >= 1 /\ CopiesIn(f, prices') >= 1]_vars

---------------------------------------------------------------------------
(* Claims about the report *)

\* The most recent call returned a report, and neither the store nor the
\* day has changed since.
ReportBuilt == ret.op = "_generate_report_data" /\ ret.at = today

\* The stored facts of a product dated today.
TodayFacts(product) ==
    {r \in Rows(prices) : r.date = today /\ r.product = product}

\* The sources that have a fact for the product today.
TodaySources(product) == {r.supermarket : r \in TodayFacts(product)}

\* The prices one source has for the product today.
TodayPricesAt(product, source) ==
    {r.price_guaranies : r \in {x \in TodayFacts(product) : x.supermarket = source}}

\* The lowest price of a source for the product today.
LowestToday(product, source) ==
    CHOOSE x \in TodayPricesAt(product, source) :
        \A y \in TodayPricesAt(product, source) : x <= y

\* C4: for every product of the report, prices holds exactly one entry per
\* source that has a fact for the product today, the entry carries the
\* lowest price of that source, and the list is in ascending price order.
C4_OneLowestEntryPerSource ==
    ReportBuilt =>
        \A i \in 1 .. Len(ret.value.products) :
            LET e == ret.value.products[i]
                n == Len(e.prices)
            IN  /\ {e.prices[j].supermarket : j \in 1 .. n} = TodaySources(e.name)
                /\ n = Cardinality(TodaySources(e.name))
                /\ \A j \in 1 .. n :
                      e.prices[j].price = LowestToday(e.name, e.prices[j].supermarket)
                /\ \A j \in 1 .. n - 1 : e.prices[j].price <= e.prices[j + 1].price

\* A report listing two sources for a product, one of them with listings at
\* 16500 and 16800 today, of which the report keeps 16500.
C4_Witness ==
    /\ ReportBuilt
    /\ \E i \in 1 .. Len(ret.value.products) :
          LET e == ret.value.products[i]
          IN  /\ Len(e.prices) = 2
              /\ \E j \in 1 .. 2 :
                    /\ TodayPricesAt(e.name, e.prices[j].supermarket) = {16500, 16800}
                    /\ e.prices[j].price = 16500

\* m is the integer median of the values f assigns to the members of S:
\* stated by counting, not by sorting.
IsMedianOf(m, S, f) ==
    LET n == Cardinality(S)
        below(v) == Cardinality({s \in S : f[s] < v})
        above(v) == Cardinality({s \in S : f[s] > v})
    IN  IF n % 2 = 1
        THEN \E s \in S : /\ m = f[s]
                           /\ 2 * below(f[s]) < n
                           /\ 2 * above(f[s]) < n
        ELSE \E s, t \in S :
                /\ s # t
                /\ f[s] <= f[t]
                /\ 2 * below(f[s]) < n /\ 2 * above(f[s]) <= n
                /\ 2 * above(f[t]) < n /\ 2 * below(f[t]) <= n
                /\ 2 * m <= f[s] + f[t]
                /\ f[s] + f[t] < 2 * (m + 1)

\* C5: the median of a product is the integer median of the lowest prices
\* of its sources, one value per source; a single source with listings at
\* 17950 and 16500 gives 16500; a store without facts of earlier days gives
\* no alert.
C5_MedianOfPerSourcePrices ==
    ReportBuilt =>
        /\ \A i \in 1 .. Len(ret.value.products) :
              LET e == ret.value.products[i]
                  S == TodaySources(e.name)
              IN  /\ IsMedianOf(e.median, S, [s \in S |-> LowestToday(e.name, s)])
                  /\ ( /\ Cardinality(S) = 1
                       /\ \A s \in S : TodayPricesAt(e.name, s) = {17950, 16500} )
                     => e.median = 16500
        /\ (\A r \in Rows(prices) : r.date >= today) => ret.value.alerts = << >>

\* A report over two sources whose lowest prices have an odd sum, so that
\* the mean is truncated.
C5_TruncatedMeanReached ==
    /\ ReportBuilt
    /\ \E i \in 1 .. Len(ret.value.products) :
          LET e == ret.value.products[i]
              S == TodaySources(e.name)
          IN  /\ Cardinality(S) = 2
              /\ \E s, t \in S :
                    /\ s # t
                    /\ (LowestToday(e.name, s) + LowestToday(e.name, t)) % 2 = 1
                    /\ 2 * e.median + 1 = LowestToday(e.name, s) + LowestToday(e.name, t)

\* The single-source case of C5: listings at 17950 and 16500, no history.
C5_Witness ==
    /\ ReportBuilt
    /\ Len(ret.value.products) = 1
    /\ TodaySources(ret.value.products[1].name) = {"Stock"}
    /\ TodayPricesAt(ret.value.products[1].name, "Stock") = {17950, 16500}
    /\ ret.value.products[1].median = 16500
    /\ \A r \in Rows(prices) : r.date = today

\* The prices of the stored facts of a (source, product) pair on the latest
\* date before today that has one.
PreviousPrices(source, product) ==
    LET before == {r \in Rows(prices) : /\ r.supermarket = source
                                        /\ r.product = product
                                        /\ r.date < today}
    IN  {r.price_guaranies : r \in {x \in before : \A y \in before : y.date <= x.date}}

\* |(current - previous) / previous * 100| >= threshold, for positive prices.
MeetsThreshold(current, previous, threshold) ==
    \/ (current - previous) * 100 >= threshold * previous
    \/ (previous - current) * 100 >= threshold * previous

\* The alerts of the report for one (source, product) pair.
AlertsOf(source, product) ==
    {k \in 1 .. Len(ret.value.alerts) :
        /\ ret.value.alerts[k].supermarket = source
        /\ ret.value.alerts[k].product = product}

C7_ChangePercentOneDecimal ==
    ReportBuilt =>
        \A k \in 1 .. Len(ret.value.alerts) :
            LET a == ret.value.alerts[k]
            IN  (a.previous_price = 20250 /\ a.current_price = 16500) =>
                    10 * a.change_percent.num = -185 * a.change_percent.den

\* C8: a configured product without a fact today has no entry in products,
\* no alert and no entry in trends, and no product is reported with median
\* zero; a configured product with a fact today has exactly one entry in
\* products and one in trends.
C8_ProductsWithoutFactsOmitted ==
    ReportBuilt =>
        \A c \in 1 .. Len(ProductsConfig) :
            LET name == ProductsConfig[c]
                at == {i \in 1 .. Len(ret.value.products) :
                          ret.value.products[i].name = name}
            IN  IF TodayFacts(name) = {}
                THEN /\ at = {}
                     /\ \A k \in 1 .. Len(ret.value.alerts) :
                           ret.value.alerts[k].product # name
                     /\ name \notin DOMAIN ret.value.trends
                ELSE /\ Cardinality(at) = 1
                     /\ \A i \in at : ret.value.products[i].median # 0
                     /\ name \in DOMAIN ret.value.trends

\* A report with one product, the other configured product having facts of
\* an earlier day only.
C8_Witness ==
    /\ ReportBuilt
    /\ Len(ret.value.products) = 1
    /\ \E c \in 1 .. Len(ProductsConfig) :
          /\ TodayFacts(ProductsConfig[c]) = {}
          /\ \E r \in Rows(prices) : r.product = ProductsConfig[c]

---------------------------------------------------------------------------
(* Claims about the history queries *)

\* The most recent call was the named query, and neither the store nor the
\* day has changed since.
Answered(op) == ret.op = op /\ ret.at = today

\* The stored facts of a (source, product) pair dated before today.
FactsBefore(source, product) ==
    {r \in Rows(prices) : /\ r.supermarket = source
                          /\ r.product = product
                          /\ r.date < today}

\* C9: previousPrice(source, product) returns the price of a stored fact of
\* that pair whose date is the greatest stored date of the pair before
\* today, and none when the pair has no fact dated before today; facts
\* dated today have no part in it.
C9_PreviousPriceIsLatestBeforeToday ==
    Answered("get_previous_price") =>
        LET before == FactsBefore(ret.args[1], ret.args[2])
        IN  IF before = {} THEN ret.value = None
            ELSE \E r \in before :
                    /\ \A q \in before : q.date <= r.date
                    /\ ret.value = Some(r.price_guaranies)

\* The pair has facts on two earlier days and today, at prices that differ,
\* and the query returned the price of the later of the earlier days.
C9_Witness ==
    /\ Answered("get_previous_price")
    /\ today = 2
    /\ \E r0, r1, r2 \in Rows(prices) :
          /\ r0.date = 0 /\ r1.date = 1 /\ r2.date = 2
          /\ \A r \in {r0, r1, r2} :
                r.supermarket = ret.args[1] /\ r.product = ret.args[2]
          /\ r1.price_guaranies # r0.price_guaranies
          /\ r1.price_guaranies # r2.price_guaranies
          /\ ret.value = Some(r1.price_guaranies)

\* The dates, from today - windowDays to today, on which the product has a
\* stored fact.
DatesInWindow(product, windowDays) ==
    {d \in today - windowDays .. today :
        \E r \in Rows(prices) : r.product = product /\ r.date = d}

\* C10: trend(product, windowDays) returns insufficient_data exactly when
\* the facts of the product dated from today - windowDays to today cover
\* fewer than 2 distinct dates.
C10_InsufficientDataIffUnderTwoDates ==
    Answered("get_price_trend") =>
        (ret.value.trend = "insufficient_data"
            <=> Cardinality(DatesInWindow(ret.args[1], ret.args[2])) < 2)

\* The product has facts on two dates, one of them older than the window,
\* and two facts on the one date inside it: insufficient_data.
C10_Witness ==
    /\ Answered("get_price_trend")
    /\ ret.value.trend = "insufficient_data"
    /\ \E r, q, o \in Rows(prices) :
          /\ r.product = ret.args[1] /\ q.product = ret.args[1]
          /\ o.product = ret.args[1]
          /\ r # q /\ r.date = q.date
          /\ r.date >= today - ret.args[2] /\ r.date <= today
          /\ o.date < today - ret.args[2]

\* The rows of the product dated d.
FactsOn(product, d) ==
    {r \in Rows(prices) : r.product = product /\ r.date = d}

C11_ExampleReached ==
    /\ Answered("get_price_trend")
    /\ ret.value.trend = "up"
    /\ ret.value.change_percent = 50
    /\ ret.value.first_price = 20000
    /\ ret.value.last_price = 21000

\* A fall of exactly 2 percent, 20000 to 19600, answered stable.
C11_MinusTwoPercentReached ==
    /\ Answered("get_price_trend")
    /\ ret.value.trend = "stable"
    /\ ret.value.change_percent = -20

---------------------------------------------------------------------------
(* Claims about the matcher and the normalizer *)

\* Two characters that are the same letter, whatever their case.
SameLetter(a, b) == a = b \/ <<a, b>> \in CasePairs \/ <<b, a>> \in CasePairs

\* The term occurs in the name as a run of adjacent characters, case aside.
OccursIn(term, name) ==
    \E k \in 0..(Len(name) - Len(term)) :
        \A j \in 1..Len(term) : SameLetter(term[j], name[k + j])

\* C17: the matcher returns true exactly when at least one search term of
\* the product occurs, case aside, as a contiguous substring of the raw
\* listing name; it returns false otherwise, and always for a product that
\* has no search terms.
C17_MatchIffSomeTermOccurs ==
    Answered("_matches_product") =>
        LET raw_name == ret.args[1]
            given == ret.args[2].search_terms
            terms == IF given = None THEN {}
                     ELSE {given[1][i] : i \in 1..Len(given[1])}
        IN  /\ ret.value \in BOOLEAN
            /\ ret.value <=> \E term \in terms : OccursIn(term, raw_name)
            /\ terms = {} => ret.value = FALSE

\* The name aTa is matched by the second term, ta, in another case and not
\* at the start of the name, after the first term, tt, failed.
C17_Witness ==
    /\ Answered("_matches_product")
    /\ ret.args[1] = <<"a", "T", "a">>
    /\ ret.args[2].search_terms = Some(<< <<"t", "t">>, <<"t", "a">> >>)
    /\ ret.value = TRUE

\* A product without the key search_terms is asked about a name.
C17_NoTermsReached ==
    /\ Answered("_matches_product")
    /\ ret.args[2].search_terms = None
    /\ ret.args[1] # << >>
    /\ ret.value = FALSE

\* The string without the character c.
Without(s, c) == SelectSeq(s, LAMBDA x : x # c)

\* The part of the string before its first c; all of it when it has none.
Before(s, c) ==
    LET at == {i \in 1..Len(s) : s[i] = c}
    IN  IF at = {} THEN s
        ELSE SubSeq(s, 1, (CHOOSE i \in at : \A j \in at : i <= j) - 1)

Count(s, c) == Cardinality({i \in 1..Len(s) : s[i] = c})

\* The values the precedence rule allows for a run of digits, '.' and ','.
\* Both separators: the digits before the first ',' with every '.'
\* removed.  With oneComma the rule is narrowed to what the code does: a
\* run of two or more ',' is no number, and a run with nothing before its
\* one ',' is 0 when digits follow.  Without it, nothing before the first
\* ',' may be read as no price or as 0.
\* Only '.': removed when 3 characters follow the last one; otherwise the
\* number as written, cut to its integer part, when it is a number.
\* Only ',': removed.
RuleValues(number, oneComma) ==
    LET dots == Count(number, ".")
        commas == Count(number, ",")
        digits == Len(number) - dots - commas
        whole == Without(Before(number, ","), ".")
    IN  IF dots > 0 /\ commas > 0
        THEN IF oneComma /\ commas > 1 THEN {None}
             ELSE IF whole # << >> THEN {Some(DigitsValue(whole))}
             ELSE IF ~oneComma THEN {None, Some(0)}
             ELSE IF digits > 0 THEN {Some(0)} ELSE {None}
        ELSE IF dots > 0
        THEN IF /\ Len(number) > 3
                /\ number[Len(number) - 3] = "."
                /\ \A i \in (Len(number) - 2)..Len(number) : IsDigit(number[i])
             THEN {Some(DigitsValue(Without(number, ".")))}
             ELSE IF dots = 1 /\ digits > 0
             THEN {Some(DigitsValue(Before(number, ".")))}
             ELSE {None}
        ELSE IF digits = 0 THEN {None}
        ELSE {Some(DigitsValue(Without(number, ",")))}

\* The values the rule allows for a text: those of its first maximal run
\* of digits, '.' and ',' after the markers and suffixes are stripped, and
\* no price when it has no such run.
NormalizerValues(text, oneComma) ==
    LET number == SearchNumber(Cleaned(text))
    IN  IF number = None THEN {None} ELSE RuleValues(number[1], oneComma)

C20_ExampleReached ==
    /\ Answered("_extract_price")
    /\ ret.args[1] = <<"G", "s", " ", "1", ".", "2", "3", "4", ",", "5", "6">>
    /\ ret.value = Some(1234)

---------------------------------------------------------------------------
(* Claims about the collection and the run *)

\* The elements of a sequence.
Elements(s) == {s[i] : i \in 1..Len(s)}

\* The position of a source in the configuration.
SourceIndex(name) ==
    CHOOSE n \in 1..Len(SupermarketsConfig) : SupermarketsConfig[n].name = name

\* A source is enabled unless its configuration says enabled: false.
IsEnabled(n) == SupermarketsConfig[n].enabled # Some(FALSE)

ProductNamed(name) ==
    CHOOSE product \in Elements(ConfiguredProducts) : product.name = name

\* The listing matches the product: a search term that the product
\* declares occurs in its name.
ListingMatches(listing, product) ==
    /\ product.search_terms # None
    /\ \E term \in Elements(product.search_terms[1]) :
          OccursIn(term, listing.name)

\* The fact that a query call yields for one of its listings.
FactFor(event, listing) ==
    LET product == ProductNamed(event.product)
    IN  [supermarket |-> event.source, product |-> event.product,
         product_name_raw |-> listing.name, price |-> listing.price,
         unit |-> IF product.unit = None THEN "kg" ELSE product.unit[1]]

\* The loop over the sources has gone past source n.
Processed(n) == run.pc # "idle" /\ run.s > n

\* C12: an error raised while a source is processed is caught at the level
\* of that source: the source is asked nothing more in the run, the facts
\* collected before the error (from that source and from the earlier ones)
\* stay in the collection result, and every later enabled source is still
\* processed.
C12_SourceErrorSkipsRestOfSource ==
    \A i \in 1..Len(log.events) :
        log.events[i].kind = "error" =>
            /\ \A j \in (i + 1)..Len(log.events) :
                  log.events[j].source # log.events[i].source
            /\ \A j \in 1..(i - 1) :
                  log.events[j].kind = "search" =>
                      \A listing \in Elements(log.events[j].results) :
                          ListingMatches(listing,
                                         ProductNamed(log.events[j].product))
                              => FactFor(log.events[j], listing)
                                     \in Elements(run.all_prices)
            /\ \A n \in 1..Len(SupermarketsConfig) :
                  (/\ n > SourceIndex(log.events[i].source)
                   /\ IsEnabled(n)
                   /\ Processed(n))
                      => \E j \in (i + 1)..Len(log.events) :
                            log.events[j].source = SupermarketsConfig[n].name

\* The collection is over; Stock raised after a query that gave a fact, and
\* Biggie, the enabled source after it, was queried and gave a fact too.
C12_Witness ==
    /\ log.steps # << >>
    /\ \E i \in 2..Len(log.events) :
          /\ log.events[i] = [kind |-> "error", source |-> "Stock"]
          /\ log.events[i - 1].kind = "search"
          /\ log.events[i - 1].results # << >>
          /\ \E j \in (i + 1)..Len(log.events) :
                /\ log.events[j].kind = "search"
                /\ log.events[j].source = "Biggie"
                /\ log.events[j].results # << >>
    /\ \E f, g \in Elements(run.all_prices) :
          f.supermarket = "Stock" /\ g.supermarket = "Biggie"

\* The fetch of a search ended with a timeout or a connection error.
NoResponse(response) == response.kind \in {"Timeout", "ConnectionError"}

\* What search owes its caller, given the statuses that count as a
\* transport failure: it raises nothing; an enabled adapter returns an
\* empty list on a transport failure and on a document that cannot be
\* parsed, and otherwise the listings of the extractor.
SearchContract(failedStatuses) ==
    Answered("search") =>
        LET config == ret.args[1]
            response == ret.args[3]
            failed == \/ NoResponse(response)
                      \/ response.status \in failedStatuses
        IN  /\ ~ret.value.raised
            /\ config.enabled # Some(FALSE) =>
                  /\ failed => ret.value.value = << >>
                  /\ (~NoResponse(response) /\ ~response.body.parses)
                        => ret.value.value = << >>
                  /\ (~failed /\ response.body.parses)
                        => ret.value.value =
                              ParseProducts(config.name,
                                            response.body.page)

C13_ErrorStatusReached ==
    /\ Answered("search")
    /\ ret.args[1].enabled # Some(FALSE)
    /\ ret.args[3].kind = "Response"
    /\ ret.args[3].status = 404
    /\ ret.args[3].body = [parses |-> TRUE, page |-> PageTomateLechuga]
    /\ ret.value = [value |-> << >>, fetched |-> TRUE, raised |-> FALSE]

\* search got a 200 response with a document that cannot be parsed and
\* returned an empty list.
C13_ParseFailureReached ==
    /\ Answered("search")
    /\ ret.args[1].enabled # Some(FALSE)
    /\ ret.args[3] = [kind |-> "Response", status |-> 200,
                      body |-> [parses |-> FALSE]]
    /\ ret.value = [value |-> << >>, fetched |-> TRUE, raised |-> FALSE]

\* C14: a disabled source causes no network access.  search on an adapter
\* that is configured disabled returns an empty list without a fetch; a run
\* makes no search, hence no fetch, on a source whose configuration has
\* enabled = false, and neither collects nor saves a fact of it.
C14_DisabledSourceNeverFetched ==
    /\ (Answered("search") /\ ret.args[1].enabled = Some(FALSE))
          => ret.value.value = << >> /\ ~ret.value.fetched
    /\ \A n \in 1..Len(SupermarketsConfig) :
          SupermarketsConfig[n].enabled = Some(FALSE) =>
              /\ \A event \in Elements(log.events) :
                    event.source # SupermarketsConfig[n].name
              /\ \A fact \in Elements(run.all_prices) :
                    fact.supermarket # SupermarketsConfig[n].name
              /\ \A r \in Rows(prices) :
                    r.supermarket # SupermarketsConfig[n].name

\* A run is over in which the enabled sources were fetched and gave facts,
\* which were saved; Superseis, which is disabled, was passed over.
C14_Witness ==
    /\ run.pc = "done"
    /\ SupermarketsConfig[2] = [name |-> "Superseis", enabled |-> Some(FALSE)]
    /\ \E event \in Elements(log.events) :
          event.kind = "search" /\ event.fetched /\ event.results # << >>
    /\ Rows(prices) # {}

\* search was called on the disabled Superseis adapter, with a server that
\* would have answered 200 and a page of listings.
C14_DisabledSearchReached ==
    /\ Answered("search")
    /\ ret.args[1] = [name |-> "Superseis", enabled |-> Some(FALSE)]
    /\ ret.args[3] = [kind |-> "Response", status |-> 200,
                      body |-> [parses |-> TRUE,
                                page |-> PageTomateLechuga]]
    /\ ret.value = [value |-> << >>, fetched |-> FALSE, raised |-> FALSE]

\* The (product, term) pairs of the configuration in configuration order:
\* the two terms of Tomate Lisa, then the lowered name of Locote Rojo,
\* which declares no terms.
ExpectedCalls ==
    << <<"Tomate Lisa", TermTomateLisa>>,
       <<"Tomate Lisa", TermTomate>>,
       <<"Locote Rojo",
         <<"l", "o", "c", "o", "t", "e", " ", "r", "o", "j", "o">> >> >>

\* The searches made on a source so far, as (product, term) pairs.
CallsOn(name) ==
    LET calls == SelectSeq(log.events,
                           LAMBDA event : /\ event.kind = "search"
                                          /\ event.source = name)
    IN  [k \in 1..Len(calls) |-> <<calls[k].product, calls[k].term>>]

Aborted(name) == [kind |-> "error", source |-> name] \in Elements(log.events)

\* C15: in one run the adapter is invoked exactly once for each (enabled
\* source, product, term) triple of a source that does not abort, source by
\* source, then product by product, then term by term, in configuration
\* order; no call is made again, whatever it returned, and what a call
\* returned on one source does not keep the term from the next sources.
C15_EachTripleOnceInConfigurationOrder ==
    /\ \A i, j \in 1..Len(log.events) :
          i < j => SourceIndex(log.events[i].source)
                       <= SourceIndex(log.events[j].source)
    /\ \A n \in 1..Len(SupermarketsConfig) :
          LET name == SupermarketsConfig[n].name
          IN  /\ Len(CallsOn(name)) <= Len(ExpectedCalls)
              /\ CallsOn(name) = SubSeq(ExpectedCalls, 1, Len(CallsOn(name)))
              /\ (IsEnabled(n) /\ Processed(n) /\ ~Aborted(name))
                    => CallsOn(name) = ExpectedCalls

\* The collection is over and no source aborted: the search of "tomate" on
\* Stock went to the network and returned nothing, and the same term was
\* then searched on Biggie and returned listings.
C15_Witness ==
    /\ log.steps # << >>
    /\ ~Aborted("Stock") /\ ~Aborted("Biggie")
    /\ Len(log.events) = 2 * Len(ExpectedCalls)
    /\ log.events[2].source = "Stock"
    /\ log.events[2].term = TermTomate
    /\ log.events[2].fetched
    /\ log.events[2].results = << >>
    /\ log.events[5].source = "Biggie"
    /\ log.events[5].term = TermTomate
    /\ log.events[5].results # << >>

\* The facts one query call owes: one for each returned listing that
\* matches the product of the call.
FactsDueFor(event) ==
    LET matching == SelectSeq(event.results,
                       LAMBDA listing :
                           ListingMatches(listing, ProductNamed(event.product)))
    IN  [k \in 1..Len(matching) |-> FactFor(event, matching[k])]

RECURSIVE FactsDue(_)
\* The facts that the query calls of a run owe, call after call.
FactsDue(events) ==
    IF events = << >> THEN << >>
    ELSE FactsDue(SubSeq(events, 1, Len(events) - 1))
         \o (IF events[Len(events)].kind = "search"
             THEN FactsDueFor(events[Len(events)])
             ELSE << >>)

\* C16: the collection result holds one fact for every (query call,
\* returned listing) pair whose listing matches the product of the call,
\* and nothing else.  A fact carries the source of the call, the name and
\* the unit of the product of the call, and the raw name and the price of
\* the listing; a listing that matches no term of the product is not
\* recorded, and a listing returned for two terms is recorded twice.
C16_OneFactPerMatchingListingOfEachCall ==
    run.all_prices = FactsDue(log.events)

\* Both searches of Tomate Lisa on Stock returned the same page: its
\* 'Tomate Lisa' listing is recorded twice, with the unit of the product,
\* and its 'Lechuga' listing, which matches no term, is not recorded.
C16_Witness ==
    /\ Len(log.events) >= 2
    /\ log.events[1].kind = "search" /\ log.events[2].kind = "search"
    /\ log.events[1].results = log.events[2].results
    /\ \E listing \in Elements(log.events[1].results) :
          listing.name = NameLechuga
    /\ Len(run.all_prices) >= 2
    /\ run.all_prices[1] = run.all_prices[2]
    /\ run.all_prices[1] =
          [supermarket |-> "Stock", product |-> "Tomate Lisa",
           product_name_raw |-> NameTomateLisa, price |-> 17950,
           unit |-> "unidad"]
    /\ \A fact \in Elements(run.all_prices) :
          fact.product_name_raw # NameLechuga

\* The steps of a run, in the order of the claim.
StepsInOrder == <<"collect", "save", "sync", "report", "decide">>

\* The store holds a row for the fact.
IsSaved(fact) ==
    \E r \in Rows(prices) :
        /\ r.supermarket = fact.supermarket
        /\ r.product = fact.product
        /\ r.product_name_raw = Some(fact.product_name_raw)
        /\ r.price_guaranies = fact.price
        /\ r.unit = fact.unit

\* No configured product has a fact dated today.
NoFactsToday ==
    \A r \in Rows(prices) :
        r.date = today => r.product \notin Elements(ProductsConfig)

\* C18: the steps of a run occur in the order collect, save every collected
\* fact, analytics sync, build report, delivery decision.  The run hands
\* the report it built to delivery exactly when that report has at least
\* one product; when no product has facts for today it logs and delivers
\* nothing.
C18_DeliveryIffReportHasProducts ==
    /\ Len(log.steps) <= Len(StepsInOrder)
    /\ log.steps = SubSeq(StepsInOrder, 1, Len(log.steps))
    /\ Len(log.steps) >= 2 => \A fact \in Elements(run.all_prices) : IsSaved(fact)
    /\ Len(log.steps) >= 4 => run.report_data # None
    /\ run.pc # "done" => log.delivered = None /\ ~log.warned
    /\ run.pc = "done" =>
          /\ log.steps = StepsInOrder
          /\ log.delivered # None <=> run.report_data[1].products # << >>
          /\ log.delivered # None => log.delivered = run.report_data
          /\ log.warned <=> log.delivered = None
          /\ NoFactsToday => log.delivered = None

\* A run is over that collected facts, saved them, and handed a report with
\* a product to delivery.
C18_Witness ==
    /\ run.pc = "done"
    /\ run.all_prices # << >>
    /\ log.delivered # None
    /\ log.delivered[1].products # << >>

\* A run is over that collected nothing: it logged and delivered nothing.
C18_NothingCollectedReached ==
    /\ run.pc = "done"
    /\ run.all_prices = << >>
    /\ log.warned
    /\ log.delivered = None

\* A run is over that collected facts and saved them before midnight, and
\* built its report after it: no product has facts for the new day, and
\* nothing is delivered.
C18_SavedYesterdayReached ==
    /\ run.pc = "done"
    /\ run.all_prices # << >>
    /\ NoFactsToday
    /\ log.warned
    /\ log.delivered = None

\* How far a run is: its step, then the source, the query and the fact it
\* is at.
PcRank(pc) ==
    CASE pc = "idle" -> 0
      [] pc = "scrape" -> 1
      [] pc = "save" -> 2
      [] pc = "sync" -> 3
      [] pc = "report" -> 4
      [] pc = "deliver" -> 5
      [] pc = "done" -> 6
      [] OTHER -> 7

Advances ==
    \/ PcRank(run'.pc) > PcRank(run.pc)
    \/ /\ run'.pc = run.pc
       /\ \/ run'.s > run.s
          \/ run'.s = run.s /\ run'.q > run.q
          \/ run'.s = run.s /\ run'.q = run.q /\ run'.i > run.i

\* C19: no failure aborts a run.  Whatever the fetches, the parser, the
\* price texts, the saves and the analytics sync do, the run is never
\* aborted, it always has a next step until the delivery decision is made,
\* every step brings it nearer to that decision, and at the decision the
\* collected facts are saved and the report is built.  When the analytics
\* credentials are absent the sync step is passed and nothing is sent to
\* the analytics service.
C19_NoFailureAbortsRun ==
    /\ [](run.pc \in {"idle", "scrape", "save", "sync", "report", "deliver",
                      "done"})
    /\ [](run.pc \in {"scrape", "save", "sync", "deliver"} => ENABLED RunStep)
    /\ [](run.pc = "report" => ReportData(prices, today, alert_threshold) # {})
    /\ [][RunStep => Advances]_vars
    /\ [](run.pc \in {"deliver", "done"} =>
             /\ \A fact \in Elements(run.all_prices) : IsSaved(fact)
             /\ run.report_data # None)
    /\ [](log.credentials = Some(FALSE) =>
             /\ log.analytics = << >>
             /\ Len(log.steps) >= 3)

\* A run reached its decision and delivered a report although a source
\* raised, a fetch returned nothing, a price text gave no price, a fact was
\* saved twice under one key, and the analytics credentials were absent.
C19_Witness ==
    /\ run.pc = "done"
    /\ \E event \in Elements(log.events) : event.kind = "error"
    /\ \E event \in Elements(log.events) :
          /\ event.kind = "search"
          /\ event.fetched
          /\ event.results = << >>
    /\ \E event \in Elements(log.events) :
          /\ event.kind = "search"
          /\ event.results # << >>
          /\ Len(event.results) < Len(PageTomateLechuga.containers)
    /\ \E i, j \in 1..Len(run.all_prices) :
          i < j /\ run.all_prices[i] = run.all_prices[j]
    /\ log.credentials = Some(FALSE)
    /\ log.analytics = << >>
    /\ log.delivered # None

\* A run reached its decision and delivered a report although the token
\* request of the analytics sync failed.
C19_SyncErrorReached ==
    /\ run.pc = "done"
    /\ log.credentials = Some(TRUE)
    /\ log.analytics = <<[to |-> "token"]>>
    /\ log.delivered # None

---------------------------------------------------------------------------
(* Claims about the classifier and the extractors *)

\* An exclusion term occurs in the name, case aside.
HasExclusionTerm(name) ==
    \E term \in Elements(ExcludeTerms) : OccursIn(term, name)

\* C21: the classifier tries the exclusion rule first: it returns false
\* exactly when the lower-cased name contains a processed-food exclusion
\* term and true for every other name; an exclusion term wins even when an
\* inclusion term or 'kg' is present.
C21_FalseIffExclusionTerm ==
    Answered("_is_fresh_produce") =>
        (ret.value <=> ~HasExclusionTerm(ret.args[1]))

\* 'Tomate frito en lata' is not fresh produce.
C21_Witness ==
    /\ Answered("_is_fresh_produce")
    /\ ret.args[1] = <<"T", "o", "m", "a", "t", "e", " ", "f", "r", "i", "t", "o", " ", "e", "n", " ", "l", "a", "t", "a">>
    /\ ret.value = FALSE

\* 'Tomate Lisa x kg' is fresh produce.
C21_FreshReached ==
    /\ Answered("_is_fresh_produce")
    /\ ret.args[1] = <<"T", "o", "m", "a", "t", "e", " ", "L", "i", "s", "a", " ", "x", " ", "k", "g">>
    /\ ret.value = TRUE

\* 'Pulpa de tomate x kg' has an exclusion and an inclusion term and is
\* not fresh produce; 'PURÉ' is not either.
C21_ExclusionWinsReached ==
    /\ Answered("_is_fresh_produce")
    /\ ret.args[1] \in {<<"P", "u", "l", "p", "a", " ", "d", "e", " ", "t", "o", "m", "a", "t", "e", " ", "x", " ", "k", "g">>,
                        <<"P", "U", "R", "É">>}
    /\ StrIn(<<"k", "g">>, ret.args[1]) \/ StrIn(<<"É">>, ret.args[1])
    /\ ret.value = FALSE

\* The listings of a call of _parse_products.
ListingsReturned == Elements(ret.value)

RECURSIVE EachAlone(_, _)
\* What the containers of a page yield when each one that parses is the
\* only container of its page, in document order.
EachAlone(name, elements) ==
    IF elements = << >> THEN << >>
    ELSE (IF Head(elements).raises THEN << >>
          ELSE ParseProducts(name, [containers |-> <<Head(elements)>>,
                                    lines |-> << >>]))
         \o EachAlone(name, Tail(elements))

\* C22: in every extractor a failure while one container is parsed skips
\* that container alone: the extractor goes on with the remaining
\* containers and returns the listings of all containers that parse, in
\* document order.
C22_FailingContainerAloneIsSkipped ==
    (Answered("_parse_products") /\ ret.args[2].containers # << >>)
        => ret.value = EachAlone(ret.args[1], ret.args[2].containers)

\* The first container of the page raised and the second one gave its
\* listing.
C22_Witness ==
    /\ Answered("_parse_products")
    /\ Len(ret.args[2].containers) = 2
    /\ ret.args[2].containers[1].raises
    /\ ~ret.args[2].containers[2].raises
    /\ Len(ret.value) = 1
    /\ ret.value[1].name = NameTomateLisa

\* C23: every listing an extractor returns has a name of at least 3
\* characters; a container whose name is shorter, or becomes shorter when
\* the promotional copy is cut off, yields no listing.
C23_ListingNamesAtLeastThreeCharacters ==
    Answered("_parse_products") =>
        \A listing \in ListingsReturned : Len(listing.name) >= 3

\* C24: no extractor path returns a listing whose name the classifier
\* rejects.
C24_ListingsAreFreshProduce ==
    Answered("_parse_products") =>
        \A listing \in ListingsReturned :
            /\ IsFreshProduce(listing.name)
            /\ ~HasExclusionTerm(listing.name)

\* A page held 'Tomate en lata' and 'Tomate Lisa', both with a price, and
\* the extractor returned 'Tomate Lisa' alone.
C24_Witness ==
    /\ Answered("_parse_products")
    /\ ret.args[2].containers = << Plain(NameTomateEnLata, Text5000),
                                   Plain(NameTomateLisa, Text17950) >>
    /\ Len(ret.value) = 1
    /\ ret.value[1].name = NameTomateLisa

\* The text of a page without containers held the lines of 'Tomate en
\* lata' and of 'Tomate Lisa x kg', and Stock returned the second alone.
C24_TextFallbackReached ==
    /\ Answered("_parse_products")
    /\ ret.args[1] = "Stock"
    /\ ret.args[2].lines =
          << <<"T", "o", "m", "a", "t", "e", " ", "e", "n", " ", "l", "a", "t", "a", " ", "G", "s", " ", "5", ".", "0", "0", "0">>,
             <<"T", "o", "m", "a", "t", "e", " ", "L", "i", "s", "a", " ", "x", " ", "k", "g", " ", "G", "s", " ", "1", "7", ".", "9", "5", "0">> >>
    /\ Len(ret.value) = 1
    /\ ret.value[1].name = <<"T", "o", "m", "a", "t", "e", " ", "L", "i", "s", "a", " ", "x", " ", "k", "g">>
    /\ ret.value[1].price = 17950

\* The page of a category has listings: it is fetched, it parses, and the
\* Casa Rica extractor finds at least one listing on it.
PageHasListings(response) ==
    /\ response.kind = "Response"
    /\ response.status \notin 400..599
    /\ response.body.parses
    /\ ParseProducts("Casa Rica", response.body.page) # << >>

\* The number of pages from the first one on that have listings, up to the
\* limit of 5.
LeadingPages(responses) ==
    LET full == {n \in 0..5 : \A k \in 1..n : PageHasListings(responses[k])}
    IN  CHOOSE n \in full : \A m \in full : m <= n

RECURSIVE ListingsUpTo(_, _)
\* The listings of the pages 1..n, page after page.
ListingsUpTo(responses, n) ==
    IF n = 0 THEN << >>
    ELSE ListingsUpTo(responses, n - 1)
         \o ParseProducts("Casa Rica", responses[n].body.page)

\* C25: the category search fetches the pages 1, 2, ... in order and at
\* most 5 of them; at the first page that yields no listing or whose fetch
\* fails it stops, fetches no later page, and returns the listings of the
\* pages before; an unknown category returns an empty list without a fetch.
C25_CategoryStopsAtFirstPageWithoutListings ==
    Answered("search_category") =>
        LET category == ret.args[1]
            responses == ret.args[2]
            n == LeadingPages(responses)
        IN  IF category \notin {"verduras", "frutas"}
            THEN ret.value = [value |-> << >>, fetched |-> << >>]
            ELSE /\ ret.value.fetched = [k \in 1..(IF n < 5 THEN n + 1 ELSE 5) |-> k]
                 /\ ret.value.value = ListingsUpTo(responses, n)

\* Two pages with listings, then an empty one, then pages with listings:
\* three pages are fetched and the listings of the first two returned.
C25_Witness ==
    /\ Answered("search_category")
    /\ ret.args[1] = "verduras"
    /\ PageHasListings(ret.args[2][1])
    /\ PageHasListings(ret.args[2][2])
    /\ ret.args[2][3].kind = "Response"
    /\ ret.args[2][3].status = 200
    /\ ret.args[2][3].body = [parses |-> TRUE, page |-> PageEmpty]
    /\ PageHasListings(ret.args[2][4])
    /\ ret.value.fetched = <<1, 2, 3>>
    /\ ret.value.value = ListingsUpTo(ret.args[2], 2)
    /\ ret.value.value # << >>

\* Six pages with listings: five are fetched.
C25_PageLimitReached ==
    /\ Answered("search_category")
    /\ ret.args[1] = "verduras"
    /\ \A k \in 1..6 : PageHasListings(ret.args[2][k])
    /\ ret.value.fetched = <<1, 2, 3, 4, 5>>

\* The fetch of the first page failed: nothing later is fetched.
C25_FetchFailureReached ==
    /\ Answered("search_category")
    /\ ret.args[1] = "verduras"
    /\ ret.args[2][1].kind = "Timeout"
    /\ PageHasListings(ret.args[2][2])
    /\ ret.value = [value |-> << >>, fetched |-> <<1>>]

\* An unknown category: nothing is fetched.
C25_UnknownCategoryReached ==
    /\ Answered("search_category")
    /\ ret.args[1] = "carnes"
    /\ PageHasListings(ret.args[2][1])
    /\ ret.value = [value |-> << >>, fetched |-> << >>]

---------------------------------------------------------------------------
(* Claims about the prices the pipeline writes *)

\* Every listing of a sequence has an integer price above 0.
PositiveListings(listings) ==
    \A listing \in Elements(listings) :
        listing.price \in Nat /\ listing.price > 0

\* Every extractor returns listings with positive prices alone, for every
\* page of ExtractPages.
ExtractorsReturnPositivePrices ==
    \A name \in ExtractSources, page \in ExtractPages :
        PositiveListings(ParseProducts(name, page))

\* The divisors of the percentage computations over the store: the previous
\* prices of the alert comparison and the earliest date averages of the
\* trends.
Divisors ==
    {previous[1] :
        previous \in UNION {GetPreviousPrice(prices, today, source, product) :
                               source \in {"Stock", "Superseis", "Biggie"},
                               product \in Elements(ProductsConfig)} \ {None}}
    \cup
    {DateAverage(prices, r.product, r.date).sum : r \in Rows(prices)}

\* C26: every listing an extractor returns has an integer price above 0, a
\* container whose price normalizes to none or to 0 being dropped; so every
\* fact the pipeline collects and saves has a positive price, and the
\* divisors of the alert and trend percentages over these facts are not 0.
C26_PricesPositive ==
    /\ (run.pc = "idle" /\ ret = NoCall) => ExtractorsReturnPositivePrices
    /\ Answered("search") => PositiveListings(ret.value.value)
    /\ \A event \in Elements(log.events) :
          event.kind = "search" => PositiveListings(event.results)
    /\ \A fact \in Elements(run.all_prices) :
          fact.price \in Nat /\ fact.price > 0
    /\ \A r \in Rows(prices) : r.price_guaranies > 0
    /\ \A d \in Divisors : d > 0

\* A search of the run met the page with a container at "Gs 0" and one at
\* "consultar" and returned the priced listings alone; the facts were saved
\* on two days, so the report has a previous price to divide by.
C26_Witness ==
    /\ run.pc = "deliver"
    /\ \E event \in Elements(log.events) :
          /\ event.kind = "search"
          /\ event.source = "Stock"
          /\ Listing("Stock", NameTomateLisa, Some(17950)) \in Elements(event.results)
          /\ Len(event.results) = Len(PageTomateLechuga.containers) - 2
    /\ \E i \in 1..Len(PageTomateLechuga.containers) :
          PageTomateLechuga.containers[i] = Plain(NameTomateLisa, TextZero)
    /\ GetPreviousPrice(prices, today, "Stock", "Tomate Lisa") # {None}
    /\ Divisors # {}

\* C27: the terms the pipeline sends to the sources are the terms the
\* matcher tests the returned listings against: a listing returned for a
\* query whose name contains the queried term, whatever the case, is
\* recorded as a fact of the product, also for a product configured without
\* search_terms, which is queried by its lower-cased name.
C27_ListingWithQueriedTermIsRecorded ==
    \A event \in Elements(log.events) :
        event.kind = "search" =>
            \A listing \in Elements(event.results) :
                OccursIn(event.term, listing.name)
                    => FactFor(event, listing) \in Elements(run.all_prices)

\* The facts of a pair on its most recent date before today.
LatestFactsBefore(source, product) ==
    {r \in FactsBefore(source, product) :
        \A q \in FactsBefore(source, product) : q.date <= r.date}

\* C28: when the most recent date before today holds several facts of a
\* (source, product) pair, under distinct raw names, the previous price is
\* the lowest of their prices.
C28_PreviousPriceIsLowestOfLatestPriorDate ==
    Answered("get_previous_price") =>
        LET latest == LatestFactsBefore(ret.args[1], ret.args[2])
        IN  latest # {} =>
                /\ ret.value # None
                /\ \A r \in latest : ret.value[1] <= r.price_guaranies

\* A run is over whose collection yielded no fact.
NothingCollected == run.pc = "done" /\ run.all_prices = << >>

\* C29 as stated: a run whose collection yields no fact hands no report to
\* delivery, whatever the store holds.
C29_NoDeliveryWhenNothingCollected ==
    NothingCollected => log.delivered = None

\* C29: a run whose collection yields no fact hands no report to delivery
\* exactly when the store holds no fact of a configured product dated with
\* the day of the report; when the store holds such facts, saved by an
\* earlier run of the day, the run delivers the report built from them.
C29_NothingCollectedDeliversStoredFactsOfToday ==
    NothingCollected =>
        /\ log.delivered = None <=> NoFactsToday
        /\ log.delivered # None =>
              /\ log.delivered = run.report_data
              /\ \A entry \in Elements(log.delivered[1].products) :
                    \E r \in Rows(prices) :
                        r.date = today /\ r.product = entry.name

\* The store held a fact of today when the run started; the run collected
\* nothing and delivered the report built from that fact.
C29_Witness ==
    /\ NothingCollected
    /\ log.delivered # None
    /\ log.delivered[1].products # << >>
    /\ \E r \in Rows(prices) : r.date = today /\ r.price_guaranies = 16500

\* The store held a fact of the day before the report's; the run collected
\* nothing and delivered nothing.
C29_StoredYesterdayReached ==
    /\ NothingCollected
    /\ prices # EmptyBag
    /\ NoFactsToday
    /\ log.delivered = None
    /\ log.warned

\* The stored rows of the facts the run collected.
RowsOfRun ==
    {r \in Rows(prices) :
        \E fact \in Elements(run.all_prices) :
            /\ r.supermarket = fact.supermarket
            /\ r.product = fact.product
            /\ r.product_name_raw = Some(fact.product_name_raw)
            /\ r.price_guaranies = fact.price
            /\ r.unit = fact.unit}

\* C30: the facts a run saves carry one calendar date, and the report the
\* run builds reads the facts of that date, also when the day changes
\* during the run: every fact the run saved is dated with the day of its
\* report.
C30_RunFactsCarryTheDateOfItsReport ==
    /\ \A r1, r2 \in RowsOfRun : r1.date = r2.date
    /\ run.report_data # None =>
          \A r \in RowsOfRun : r.date = run.report_data[1].date

=============================================================================
